---- MODULE Spec2Model ----
(***************************************************************************)
(* Digest tracking and change detection of dockgecompanion.                *)
(*                                                                         *)
(* The History Store is src/src/database.py (DatabaseManager, two SQLite   *)
(* tables), the Tracker is src/src/tracker.py (ContainerTracker).          *)
(*                                                                         *)
(* Time is counted in ticks of the local wall clock (datetime.now()).      *)
(* Container names and digests are small naturals; names are ordered as    *)
(* SQLite orders the container_name column.  A row carries the columns the *)
(* change detection reads and writes: container_name, digest and           *)
(* scan_timestamp; the other columns are payload copied through.           *)
(*                                                                         *)
(* store_container_info is modelled statement by statement: the SELECT of  *)
(* the previous record runs in autocommit mode, the first INSERT opens the *)
(* transaction and takes SQLite's write lock, commit publishes the pending *)
(* rows, and any other exit of get_connection discards them.               *)
(*                                                                         *)
(* Spec      one client, commands one after the other, every timestamp a   *)
(*           fresh reading of the clock (the reference system)             *)
(* SpecStore the History Store alone, store_container_info called with any *)
(*           timestamp read so far, in any order                           *)
(* SpecConc  two clients of the same database file storing at once         *)
(***************************************************************************)
EXTENDS Integers, Sequences, FiniteSets, TLC

\* ---- bounds of the model ------------------------------------------------
\* clock readings
MaxTime == 3
\* rows of containers up to which store_container_info is called directly
MaxRows == 3
\* rows of containers up to which a scan is begun
MaxScanRows == 4
\* rows of containers and listed containers up to which a command of the
\* Tracker on a listing of the runtime is begun
MaxTrackerRows == 2

\* container names, in the order of the container_name column, and digests
Names == 1..2
Digests == 1..2
Procs == {1, 2}
\* local time minus UTC, in ticks: datetime.now() is naive local time while
\* SQLite's datetime('now') is UTC; the offset is the host's zone
TzOffsets == {-1, 0, 1}
\* values of the hours argument of get_recent_changes
HoursBack == 1..2
None == 0
\* references in the RepoDigests of an image, and short ids of images
MaxRefs == 2
\* characters of an image string
MaxImageLen == 5
ShortIds == 1..1

VARIABLES
    containers,          \* table containers, committed rows in insertion (id) order
    digest_history,      \* table digest_history, committed rows in insertion (id) order
    lock,                \* the connection holding SQLite's write lock, None if free
    now,                 \* local wall clock
    active,              \* the clients working on the database file
    pc,                  \* position of each client
    op,                  \* the command a client is executing
    cur,                 \* store_container_info: container_info and scan_timestamp
    previous_record,     \* store_container_info: digest read by the SELECT, None if no row
    txEvents,            \* uncommitted INSERTs into digest_history of a connection
    txRows,              \* uncommitted INSERTs into containers of a connection
    current_containers,  \* scan_and_update: the scan result
    scan_timestamp,      \* scan_and_update: datetime.now() at the start of the scan
    idx,                 \* scan_and_update: position of the loop over current_containers
    previous_by_name,    \* scan_and_update: digest of the pre-scan latest row per name
    changed_container_names,
    new_container_names,
    result,              \* what the last command of a client returned
    lastScan,            \* history: what the last successful scan saw, NoScan if a
                         \* later write was not a successful scan
    atStart,             \* history: table sizes and lastScan when the scan began
    docker_containers,   \* scan_containers: what client.containers.list returned
    registry,            \* get_remote_image_digest: what each lookup method met; in
                         \* check_for_updates what it returned for each name
    host                 \* what a command met outside the database: the zone of the
                         \* host, the created_at column of the latest row of each
                         \* name and its project_name column, what the probe of the
                         \* container of each name met, whether images.remove raises,
                         \* the Config.Image and Config.Labels of a container

storeVars == <<containers, digest_history, lock>>
envVars == <<now, active>>
txVars == <<cur, previous_record, txEvents, txRows>>
scanVars == <<current_containers, scan_timestamp, idx, previous_by_name, changed_container_names,
              new_container_names>>
histVars == <<lastScan, atStart>>
dockerVars == <<docker_containers, registry, host>>
vars == <<storeVars, envVars, pc, op, txVars, scanVars, result, histVars, dockerVars>>

\* ---- helpers ------------------------------------------------------------
Range(s) == {s[i] : i \in 1..Len(s)}

Max(S) == CHOOSE x \in S : \A y \in S : y <= x

Row(n, d, t) == [container_name |-> n, digest |-> d, scan_timestamp |-> t]

\* faulty variant: the two digests bound in the wrong order
EventSwapped(n, old, new, t) ==
    [container_name |-> n, old_digest |-> new, new_digest |-> old, change_timestamp |-> t]

Event(n, old, new, t) ==
    [container_name |-> n, old_digest |-> old, new_digest |-> new, change_timestamp |-> t]

NoCur == Row(None, None, None)
NoScan == [n \in Names |-> -1]
NoStart == [events |-> 0, rows |-> 0, same |-> FALSE]

\* ---- History Store: queries -----------------------------------------------
RowsOf(rows, n) == SelectSeq(rows, LAMBDA r : r.container_name = n)

\* faulty variant: ORDER BY id DESC, the row of the name inserted last
SelectPreviousLastStored(rows, n) ==
    LET mine == RowsOf(rows, n) IN
    IF mine = <<>> THEN None ELSE mine[Len(mine)].digest

\* faulty variant: the SELECT without WHERE container_name = ?
SelectPreviousOfAnyName(rows, n) ==
    IF rows = <<>> THEN None
    ELSE LET top == Max({rows[i].scan_timestamp : i \in 1..Len(rows)})
             first == CHOOSE i \in 1..Len(rows) :
                         /\ rows[i].scan_timestamp = top
                         /\ \A j \in 1..(i - 1) : rows[j].scan_timestamp # top
         IN  rows[first].digest

\* SELECT digest FROM containers WHERE container_name = n
\* ORDER BY scan_timestamp DESC LIMIT 1; None when fetchone() returns no row
SelectPrevious(rows, n) ==
    LET mine == RowsOf(rows, n) IN
    IF mine = <<>> THEN None
    ELSE LET top == Max({mine[i].scan_timestamp : i \in 1..Len(mine)})
             first == CHOOSE i \in 1..Len(mine) :
                         /\ mine[i].scan_timestamp = top
                         /\ \A j \in 1..(i - 1) : mine[j].scan_timestamp # top
         IN  mine[first].digest

\* faulty variant: the row of name n stored last (MAX(id)) instead of the row with the
\* greatest scan_timestamp
LatestOfLastStored(rows, n) ==
    LET mine == RowsOf(rows, n) IN
    IF mine = <<>> THEN <<>> ELSE <<mine[Len(mine)]>>

\* faulty variant: MAX(scan_timestamp) of the whole table, without GROUP BY
\* container_name: the rows of the last scan only
LatestOfLastScan(rows, n) ==
    LET top == Max({rows[i].scan_timestamp : i \in 1..Len(rows)})
    IN  SelectSeq(RowsOf(rows, n), LAMBDA r : r.scan_timestamp = top)

\* the rows of name n that the join on MAX(scan_timestamp) keeps
LatestOf(rows, n) ==
    LET mine == RowsOf(rows, n) IN
    IF mine = <<>> THEN <<>>
    ELSE LET top == Max({mine[i].scan_timestamp : i \in 1..Len(mine)})
         IN  SelectSeq(mine, LAMBDA r : r.scan_timestamp = top)

RECURSIVE LatestUpTo(_, _)
LatestUpTo(rows, k) ==
    IF k = 0 THEN <<>> ELSE LatestUpTo(rows, k - 1) \o LatestOf(rows, k)

\* c1 JOIN (SELECT container_name, MAX(scan_timestamp) GROUP BY container_name)
\* ORDER BY c1.container_name
get_latest_containers(rows) == LatestUpTo(rows, Cardinality(Names))

\* ORDER BY change_timestamp DESC
InsertDesc(e, s) ==
    LET k == Cardinality({i \in 1..Len(s) : s[i].change_timestamp > e.change_timestamp})
    IN  SubSeq(s, 1, k) \o <<e>> \o SubSeq(s, k + 1, Len(s))

RECURSIVE OrderByTimestampDesc(_)
OrderByTimestampDesc(s) ==
    IF s = <<>> THEN <<>> ELSE InsertDesc(Head(s), OrderByTimestampDesc(Tail(s)))

\* SELECT * FROM digest_history WHERE container_name = n ORDER BY change_timestamp DESC
get_digest_history(events, n) ==
    OrderByTimestampDesc(SelectSeq(events, LAMBDA e : e.container_name = n))

\* datetime('now') at local time t: SQLite's clock is UTC, z is local minus UTC
SqliteNow(t, z) == t - z

\* WHERE change_timestamp > datetime('now', '-h hours')
InRecentWindow(e, h, t, z) == e.change_timestamp > SqliteNow(t, z) - h

\* SELECT * FROM digest_history WHERE ... ORDER BY change_timestamp DESC,
\* run at local time t in a zone z ticks ahead of UTC
get_recent_changes(events, h, t, z) ==
    OrderByTimestampDesc(SelectSeq(events, LAMBDA e : InRecentWindow(e, h, t, z)))

\* faulty variant: the table declared without the UNIQUE constraint
NoUniqueViolation(rows, r) == FALSE

\* UNIQUE(container_name, scan_timestamp), over the committed rows and the
\* connection's own uncommitted ones
UniqueViolation(rows, r) ==
    \E i \in 1..Len(rows) :
        /\ rows[i].container_name = r.container_name
        /\ rows[i].scan_timestamp = r.scan_timestamp

\* faulty variant: the test for a previous record left out
DigestChangedNoPrevious(prev, d) == prev # d

\* faulty variant: an event for every snapshot that has a previous record
DigestChangedAlways(prev, d) == prev # None

\* if previous_record and previous_record['digest'] != container_info.digest
DigestChanged(prev, d) == prev # None /\ prev # d

\* ---- results ------------------------------------------------------------
\* the kind of value a call hands to its caller: the annotated return type of
\* the method, "raise" when the exception leaves the method
Returns(o, ok) ==
    CASE o = "store" -> IF ok THEN "None" ELSE "raise"
      [] o = "initialize" -> "bool"
      [] o = "status" -> "list"
      [] o = "scan_containers" -> IF ok THEN "list" ELSE "raise"
      [] o = "get_remote_image_digest" -> "Optional"
      [] o = "parse_image_name" -> "tuple"
      [] o = "extract_labels" -> "Optional"
      [] OTHER -> "dict"

\* the 'error' key of a dict, or the exception raised; a bool and a list
\* carry no message
Message(o, ok, err) == IF Returns(o, ok) \in {"dict", "raise"} THEN err ELSE ""

\* what a call returned.  success is the 'success' key of a dict and the value
\* of a bool, TRUE for a value without either; error is the message; caught is
\* the failure that ended the body of the call early, "" if none did; payload
\* holds the other keys of the value
Result(o, ok, err) ==
    [op |-> o, success |-> ok, error |-> Message(o, ok, err), containers_scanned |-> 0,
     changes_detected |-> 0, new_containers |-> 0, lists |-> FALSE,
     scanned_container_names |-> <<>>, changed_container_names |-> <<>>,
     new_container_names |-> <<>>,
     returns |-> Returns(o, ok), caught |-> err, payload |-> <<>>]

NoResult == Result("none", FALSE, "")

TypeOK ==
    /\ lock \in Procs \cup {None}
    /\ now \in 0..MaxTime
    /\ active \subseteq Procs
    /\ Len(containers) <= MaxScanRows
    /\ \A i \in 1..Len(containers) :
           containers[i] \in [container_name : Names, digest : Digests,
                              scan_timestamp : 1..MaxTime]
    /\ \A i \in 1..Len(digest_history) :
           digest_history[i] \in [container_name : Names, old_digest : Digests,
                                  new_digest : Digests, change_timestamp : 1..MaxTime]

Init ==
    /\ containers = <<>>
    /\ digest_history = <<>>
    /\ lock = None
    /\ now = 0
    /\ pc = [p \in Procs |-> "idle"]
    /\ op = [p \in Procs |-> "none"]
    /\ cur = [p \in Procs |-> NoCur]
    /\ previous_record = [p \in Procs |-> None]
    /\ txEvents = [p \in Procs |-> <<>>]
    /\ txRows = [p \in Procs |-> <<>>]
    /\ current_containers = [p \in Procs |-> <<>>]
    /\ scan_timestamp = [p \in Procs |-> 0]
    /\ idx = [p \in Procs |-> 0]
    /\ previous_by_name = [p \in Procs |-> [n \in Names |-> None]]
    /\ changed_container_names = [p \in Procs |-> <<>>]
    /\ new_container_names = [p \in Procs |-> <<>>]
    /\ result = [p \in Procs |-> NoResult]
    /\ lastScan = NoScan
    /\ atStart = [p \in Procs |-> NoStart]

\* no listing of the runtime and no answer of the registry is at hand
NoHost == [zone |-> 0, created_at |-> [n \in Names |-> 0],
           project_name |-> [n \in Names |-> None],
           status |-> [n \in Names |-> "NotFound"], remove_raises |-> FALSE,
           Image |-> <<>>, Labels |-> <<>>]

NoDocker ==
    /\ docker_containers = [p \in Procs |-> <<>>]
    /\ registry = [p \in Procs |-> <<>>]
    /\ host = [p \in Procs |-> NoHost]

\* the reference system: one command at a time
InitSeq == Init /\ active = {1} /\ NoDocker

\* two clients (cron CLI run, TUI, web request) on the same database file
InitConc == Init /\ active = Procs /\ NoDocker

\* ---- History Store: store_container_info ----------------------------------
\* faulty variant: the statements of a failed connection stay in the table
\* (autocommit, no rollback)
RolledBackKept(table, pending) == table \o pending

\* what a connection leaves in a table when it ends without commit
\* (conn.rollback() in get_connection, or close() of an open transaction)
RolledBack(table, pending) == table

\* faulty variant: INSERT OR REPLACE keyed by container_name, the newest row of a name
\* replaces its older ones
CommittedReplacing(table, pending) ==
    SelectSeq(table, LAMBDA r : \A i \in 1..Len(pending) :
                          pending[i].container_name # r.container_name) \o pending

\* what conn.commit() leaves in a table
Committed(table, pending) == table \o pending

Rollback(p) ==
    /\ containers' = RolledBack(containers, txRows[p])
    /\ digest_history' = RolledBack(digest_history, txEvents[p])
    /\ txRows' = [txRows EXCEPT ![p] = <<>>]
    /\ txEvents' = [txEvents EXCEPT ![p] = <<>>]
    /\ lock' = IF lock = p THEN None ELSE lock

\* an exception leaves the command: store_container_info re-raises to its
\* caller, scan_and_update catches it and returns success False
Raise(p, err) ==
    /\ pc' = [pc EXCEPT ![p] = "idle"]
    /\ result' = [result EXCEPT ![p] = Result(op[p], FALSE, err)]
    /\ lastScan' = NoScan

\* store_container_info(container_info, scan_timestamp) called directly with
\* the timestamp t of an earlier clock reading
PutCall(p, n, d, t) ==
    /\ pc[p] = "idle"
    /\ Len(containers) < MaxRows
    /\ t \in 1..now
    /\ pc' = [pc EXCEPT ![p] = "select"]
    /\ op' = [op EXCEPT ![p] = "store"]
    /\ cur' = [cur EXCEPT ![p] = Row(n, d, t)]
    /\ previous_record' = [previous_record EXCEPT ![p] = None]
    /\ result' = [result EXCEPT ![p] = NoResult]
    /\ lastScan' = NoScan
    /\ UNCHANGED <<dockerVars, storeVars, envVars, txEvents, txRows, scanVars, atStart>>

\* store_container_info(container_info): scan_timestamp = datetime.now()
PutCallNow(p, n, d) ==
    /\ pc[p] = "idle"
    /\ Len(containers) < MaxRows
    /\ now < MaxTime
    /\ now' = now + 1
    /\ pc' = [pc EXCEPT ![p] = "select"]
    /\ op' = [op EXCEPT ![p] = "store"]
    /\ cur' = [cur EXCEPT ![p] = Row(n, d, now')]
    /\ previous_record' = [previous_record EXCEPT ![p] = None]
    /\ result' = [result EXCEPT ![p] = NoResult]
    /\ lastScan' = NoScan
    /\ UNCHANGED <<dockerVars, storeVars, active, txEvents, txRows, scanVars, atStart>>

\* the SELECT of the previous record; it runs outside any transaction
Select(p) ==
    /\ pc[p] = "select"
    /\ previous_record' =
           [previous_record EXCEPT ![p] = SelectPrevious(containers, cur[p].container_name)]
    /\ pc' = [pc EXCEPT ![p] =
                 IF DigestChanged(previous_record'[p], cur[p].digest)
                 THEN "record" ELSE "insert"]
    /\ UNCHANGED <<dockerVars, storeVars, envVars, op, cur, txEvents, txRows, scanVars, result,
                   histVars>>

\* _record_digest_change: the first INSERT opens the transaction and takes the
\* write lock
RecordChange(p) ==
    /\ pc[p] = "record"
    /\ lock \in {None, p}
    /\ lock' = p
    /\ txEvents' = [txEvents EXCEPT ![p] =
                       Append(@, Event(cur[p].container_name, previous_record[p],
                                       cur[p].digest, cur[p].scan_timestamp))]
    /\ pc' = [pc EXCEPT ![p] = "insert"]
    /\ UNCHANGED <<dockerVars, containers, digest_history, envVars, op, cur, previous_record,
                   txRows, scanVars, result, histVars>>

\* INSERT INTO containers
InsertRow(p) ==
    /\ pc[p] = "insert"
    /\ lock \in {None, p}
    /\ ~UniqueViolation(containers \o txRows[p], cur[p])
    /\ lock' = p
    /\ txRows' = [txRows EXCEPT ![p] = Append(@, cur[p])]
    /\ pc' = [pc EXCEPT ![p] = "commit"]
    /\ UNCHANGED <<dockerVars, containers, digest_history, envVars, op, cur, previous_record,
                   txEvents, scanVars, result, histVars>>

\* INSERT INTO containers raises sqlite3.IntegrityError
InsertConflict(p) ==
    /\ pc[p] = "insert"
    /\ lock \in {None, p}
    /\ UniqueViolation(containers \o txRows[p], cur[p])
    /\ Rollback(p)
    /\ Raise(p, "IntegrityError")
    /\ UNCHANGED <<dockerVars, envVars, op, cur, previous_record, scanVars, atStart>>

\* conn.commit(), then the return to the caller
Commit(p) ==
    /\ pc[p] = "commit"
    /\ lock = p
    /\ containers' = Committed(containers, txRows[p])
    /\ digest_history' = Committed(digest_history, txEvents[p])
    /\ txRows' = [txRows EXCEPT ![p] = <<>>]
    /\ txEvents' = [txEvents EXCEPT ![p] = <<>>]
    /\ lock' = None
    /\ IF op[p] = "store"
       THEN /\ pc' = [pc EXCEPT ![p] = "idle"]
            /\ result' = [result EXCEPT ![p] = Result("store", TRUE, "")]
       ELSE /\ pc' = [pc EXCEPT ![p] = IF op[p] = "initialize" THEN "stored" ELSE "classify"]
            /\ UNCHANGED result
    /\ UNCHANGED <<dockerVars, envVars, op, cur, previous_record, scanVars, histVars>>

\* a statement or the commit fails (I/O error, database is locked), or the
\* connection ends with the transaction open
StoreError(p) ==
    /\ pc[p] \in {"latest", "select", "record", "insert", "commit"}
    /\ Rollback(p)
    /\ Raise(p, "OperationalError")
    /\ UNCHANGED <<dockerVars, envVars, op, cur, previous_record, scanVars, atStart>>

\* ---- Scanner: scan_containers ---------------------------------------------
\* a ContainerInfo: the fields the Tracker and the History Store read
Container(n, d) == [container_name |-> n, digest |-> d]

\* digest f"short:{image.short_id}": no 'sha256:' digest equals it
ShortDigest(s) == Cardinality(Digests) + s

\* an image of the runtime.  found: container.image can be read; RepoDigests:
\* per reference the digest after '@sha256:', None for a reference without
\* one; id: the digest of a 'sha256:'-prefixed Id, None for another Id;
\* short_id: None when the object has no such attribute
Image(ok, repo, id, short) == [found |-> ok, RepoDigests |-> repo, id |-> id, short_id |-> short]

Images ==
    {Image(FALSE, <<>>, None, None)} \cup
    {Image(TRUE, repo, id, short) :
        repo \in UNION {[1..k -> Digests \cup {None}] : k \in 0..MaxRefs},
        id \in Digests \cup {None}, short \in ShortIds \cup {None}}

\* images with one source of a digest at most, in RepoDigests
PlainImages ==
    {Image(TRUE, <<>>, None, None)} \cup {Image(TRUE, <<d>>, None, None) : d \in Digests}

\* a container of the runtime; attrs: its attributes can be read
DockerContainer(n, ok, img) == [container_name |-> n, attrs |-> ok, image |-> img]

\* what client.containers.list can return: containers with distinct names
ListingsOf(cs) ==
    UNION {{l \in [1..k -> cs] :
               \A i, j \in 1..k : i # j => l[i].container_name # l[j].container_name} :
           k \in 0..Cardinality(Names)}

Listings ==
    ListingsOf({DockerContainer(n, TRUE, img) : n \in Names, img \in Images} \cup
               {DockerContainer(n, FALSE, Image(FALSE, <<>>, None, None)) : n \in Names})

\* the listings the Tracker's commands are run on
TrackerListings == ListingsOf({DockerContainer(n, TRUE, img) : n \in Names, img \in PlainImages})

\* faulty variant: the Id of the image before its RepoDigests
get_image_digest_id_first(c) ==
    LET img == c.image
        refs == {i \in 1..Len(img.RepoDigests) : img.RepoDigests[i] # None}
    IN  IF ~img.found THEN None
        ELSE IF img.id # None THEN img.id
        ELSE IF refs # {} THEN img.RepoDigests[CHOOSE i \in refs : \A j \in refs : i <= j]
        ELSE IF img.short_id # None THEN ShortDigest(img.short_id)
        ELSE None

\* _get_image_digest: the first reference with '@sha256:', else the Id, else
\* the short id, else None; None as well when reading the image raises
get_image_digest(c) ==
    LET img == c.image
        refs == {i \in 1..Len(img.RepoDigests) : img.RepoDigests[i] # None}
    IN  IF ~img.found THEN None
        ELSE IF refs # {} THEN img.RepoDigests[CHOOSE i \in refs : \A j \in refs : i <= j]
        ELSE IF img.id # None THEN img.id
        ELSE IF img.short_id # None THEN ShortDigest(img.short_id)
        ELSE None

\* the None that _extract_container_info returns
NoInfo == Container(None, None)

\* faulty variant: the container returned whether or not it has a digest
extract_container_info_unchecked(c) ==
    IF ~c.attrs THEN NoInfo ELSE Container(c.container_name, get_image_digest(c))

\* _extract_container_info: None when the digest is missing (if not digest)
\* or when anything raises
extract_container_info(c) ==
    IF ~c.attrs THEN NoInfo
    ELSE IF get_image_digest(c) = None THEN NoInfo
    ELSE Container(c.container_name, get_image_digest(c))

\* faulty variant: the first container that cannot be extracted ends the loop
scan_containers_until_failure(l) ==
    LET bad == {i \in 1..Len(l) : extract_container_info(l[i]) = NoInfo}
        stop == IF bad = {} THEN Len(l) ELSE (CHOOSE i \in bad : \A j \in bad : i <= j) - 1
    IN  [i \in 1..stop |-> extract_container_info(l[i])]

\* scan_containers: the loop over the listed containers, keeping what
\* _extract_container_info returns unless it is None (if container_info)
scan_containers(l) ==
    SelectSeq([i \in 1..Len(l) |-> extract_container_info(l[i])], LAMBDA info : info # NoInfo)

\* scan_containers(include_stopped) when client.containers.list returns
\* docker_containers
ScanContainers(p) ==
    /\ pc[p] = "idle"
    /\ op' = [op EXCEPT ![p] = "scan_containers"]
    /\ result' = [result EXCEPT ![p] =
                      [Result("scan_containers", TRUE, "") EXCEPT
                          !.payload = scan_containers(docker_containers[p])]]
    /\ UNCHANGED <<dockerVars, storeVars, envVars, pc, txVars, scanVars, histVars>>

\* client.containers.list raises: scan_containers logs and re-raises
ScanContainersRaise(p) ==
    /\ pc[p] = "idle"
    /\ op' = [op EXCEPT ![p] = "scan_containers"]
    /\ result' = [result EXCEPT ![p] = Result("scan_containers", FALSE, "APIError")]
    /\ UNCHANGED <<dockerVars, storeVars, envVars, pc, txVars, scanVars, histVars>>

\* ---- Scanner: _parse_image_name --------------------------------------------
\* An image string is a sequence of characters: "a" and "b" stand for the
\* characters of names and tags, "s" for the text sha256.
Chars == {"a", "b", "s", ":", "@"}

ImageStrings == UNION {[1..k -> Chars] : k \in 0..MaxImageLen}

\* the literals 'unknown', 'latest' and 'digest'; no image string equals one
Unknown == <<"unknown">>
Latest == <<"latest">>
DigestTag == <<"digest">>

\* '@sha256:'
DigestPin == <<"@", "s", ":">>

\* sub in str
Contains(str, sub) ==
    \E i \in 1..(Len(str) - Len(sub) + 1) : SubSeq(str, i, i + Len(sub) - 1) = sub

\* str.find(ch) and str.rfind(ch), counted from 1, for a ch that is in str
Find(str, ch) == CHOOSE i \in 1..Len(str) : str[i] = ch /\ \A j \in 1..(i - 1) : str[j] # ch
RFind(str, ch) ==
    CHOOSE i \in 1..Len(str) : str[i] = ch /\ \A j \in (i + 1)..Len(str) : str[j] # ch

\* faulty variant: split(':', 1), the split at the first colon
parse_image_name_first_colon(image_string) ==
    IF image_string = <<>> THEN <<Unknown, Unknown>>
    ELSE IF Contains(image_string, DigestPin)
    THEN <<SubSeq(image_string, 1, Find(image_string, "@") - 1), DigestTag>>
    ELSE IF Contains(image_string, <<":">>)
    THEN <<SubSeq(image_string, 1, Find(image_string, ":") - 1),
           SubSeq(image_string, Find(image_string, ":") + 1, Len(image_string))>>
    ELSE <<image_string, Latest>>

\* _parse_image_name: split('@')[0] is the text before the first '@',
\* rsplit(':', 1) splits at the last colon
parse_image_name(image_string) ==
    IF image_string = <<>> THEN <<Unknown, Unknown>>
    ELSE IF Contains(image_string, DigestPin)
    THEN <<SubSeq(image_string, 1, Find(image_string, "@") - 1), DigestTag>>
    ELSE IF Contains(image_string, <<":">>)
    THEN <<SubSeq(image_string, 1, RFind(image_string, ":") - 1),
           SubSeq(image_string, RFind(image_string, ":") + 1, Len(image_string))>>
    ELSE <<image_string, Latest>>

\* _parse_image_name(config_data.get('Image', ''))
ParseImageName(p) ==
    /\ pc[p] = "idle"
    /\ op[p] = "none"
    /\ op' = [op EXCEPT ![p] = "parse_image_name"]
    /\ result' = [result EXCEPT ![p] =
                      [Result("parse_image_name", TRUE, "") EXCEPT
                          !.payload = [image_name |-> parse_image_name(host[p].Image)[1],
                                       image_tag |-> parse_image_name(host[p].Image)[2]]]]
    /\ UNCHANGED <<dockerVars, storeVars, envVars, pc, txVars, scanVars, histVars>>

\* ---- Scanner: _extract_service_name, _extract_project_name ------------------
\* service_labels and project_labels, in the order of the code
ServiceLabels == <<"com.docker.compose.service", "com.docker.swarm.service.name", "service">>
ProjectLabels == <<"com.docker.compose.project", "com.docker.swarm.stack.name", "project">>

\* the keys of the labels of a container: those six and one more
LabelKeys == Range(ServiceLabels) \cup Range(ProjectLabels) \cup {"maintainer"}
LabelValues == 1..2

\* config_data.get('Labels') or {}: a dict of some keys, empty for None
LabelDicts == UNION {[K -> LabelValues] : K \in SUBSET LabelKeys}

\* faulty variant: the last label of the list that is present
LastLabel(labels, keys) ==
    LET present == {i \in 1..Len(keys) : keys[i] \in DOMAIN labels} IN
    IF present = {} THEN None
    ELSE labels[keys[CHOOSE i \in present : \A j \in present : j <= i]]

\* for label in keys: if label in labels: return labels[label]; return None
FirstLabel(labels, keys) ==
    LET present == {i \in 1..Len(keys) : keys[i] \in DOMAIN labels} IN
    IF present = {} THEN None
    ELSE labels[keys[CHOOSE i \in present : \A j \in present : i <= j]]

extract_service_name(labels) == FirstLabel(labels, ServiceLabels)
extract_project_name(labels) == FirstLabel(labels, ProjectLabels)

\* service_name and project_name of _extract_container_info
ExtractLabels(p) ==
    /\ pc[p] = "idle"
    /\ op[p] = "none"
    /\ op' = [op EXCEPT ![p] = "extract_labels"]
    /\ result' = [result EXCEPT ![p] =
                      [Result("extract_labels", TRUE, "") EXCEPT
                          !.payload = [service_name |-> extract_service_name(host[p].Labels),
                                       project_name |-> extract_project_name(host[p].Labels)]]]
    /\ UNCHANGED <<dockerVars, storeVars, envVars, pc, txVars, scanVars, histVars>>

\* ---- Scanner: get_remote_image_digest -------------------------------------
\* what a lookup method meets: a digest, an answer without a digest, an
\* exception its own except clause names (APIError and its subclasses,
\* AttributeError for the first method) or any other exception ("Error": a
\* timeout or a refused connection of the HTTP layer, a TypeError)
Outcome(k, d) == [kind |-> k, digest |-> d]

Outcomes ==
    {Outcome("digest", d) : d \in Digests} \cup
    {Outcome(k, None) : k \in {"nodigest", "APIError", "Error"}}

\* the three methods in the order of the code: get_registry_data,
\* api.inspect_image, images.pull
RegistryBehaviours == [1..3 -> Outcomes]

\* the exceptions the inner except clause of method m catches: the clauses of
\* the first two methods are narrow, the third is except Exception
CaughtInside(m, k) == IF m = 3 THEN k \in {"APIError", "Error"} ELSE k = "APIError"

\* the methods get_remote_image_digest runs from method m on, as a sequence,
\* and the digest it returns; an exception no inner clause catches reaches the
\* outer except Exception, which returns None
RECURSIVE RemoteFrom(_, _)
RemoteFrom(b, m) ==
    IF m > 3 THEN [digest |-> None, tried |-> <<>>]
    ELSE IF b[m].kind = "digest" THEN [digest |-> b[m].digest, tried |-> <<m>>]
    ELSE IF b[m].kind = "nodigest" \/ CaughtInside(m, b[m].kind)
         THEN [digest |-> RemoteFrom(b, m + 1).digest,
               tried |-> <<m>> \o RemoteFrom(b, m + 1).tried]
    ELSE [digest |-> None, tried |-> <<m>>]

get_remote_image_digest(b) == RemoteFrom(b, 1).digest

\* method 3 of get_remote_image_digest: pulled says that images.pull returned
\* an image, which the local image store now holds; removed that
\* images.remove was called on it and did not raise.  remove is called only
\* inside `if hasattr(image, 'id') and image.id`, and what it raises is
\* passed over.
PullAndRemove(b, remove_raises) ==
    LET pulled == 3 \in Range(RemoteFrom(b, 1).tried) /\ b[3].kind \in {"digest", "nodigest"}
    IN  [pulled |-> pulled,
         removed |-> pulled /\ b[3].kind = "digest" /\ ~remove_raises]

\* what get_remote_image_digest can return
RemoteDigests == {get_remote_image_digest(b) : b \in RegistryBehaviours}

\* get_remote_image_digest(image_name, tag) against the behaviour in registry
ResolveRemote(p) ==
    /\ pc[p] = "idle"
    /\ registry[p] \in RegistryBehaviours
    /\ op' = [op EXCEPT ![p] = "get_remote_image_digest"]
    /\ result' = [result EXCEPT ![p] =
                      [Result("get_remote_image_digest", TRUE, "") EXCEPT
                          !.payload = [digest |-> RemoteFrom(registry[p], 1).digest,
                                       tried |-> RemoteFrom(registry[p], 1).tried,
                                       pulled |-> PullAndRemove(registry[p],
                                                      host[p].remove_raises).pulled,
                                       removed |-> PullAndRemove(registry[p],
                                                      host[p].remove_raises).removed]]]
    /\ UNCHANGED <<dockerVars, storeVars, envVars, pc, txVars, scanVars, histVars>>

\* ---- Tracker: scan_and_update ---------------------------------------------
\* the lists scan_containers can return: the containers of the runtime, whose
\* names are distinct, in any order, each with its digest
ScanResults ==
    UNION {{cs \in [1..k -> [container_name : Names, digest : Digests]] :
               \A i, j \in 1..k : i # j => cs[i].container_name # cs[j].container_name} :
           k \in 0..Cardinality(Names)}

\* digest per name of a list of containers, None for a name not in it
Seen(cs) ==
    [n \in Names |->
        IF \E i \in 1..Len(cs) : cs[i].container_name = n
        THEN cs[CHOOSE i \in 1..Len(cs) : cs[i].container_name = n].digest
        ELSE None]

\* {c.container_name: c for c in previous_containers}
RECURSIVE ByNameUpTo(_, _)
ByNameUpTo(cs, k) ==
    IF k = 0 THEN [n \in Names |-> None]
    ELSE [ByNameUpTo(cs, k - 1) EXCEPT ![cs[k].container_name] = cs[k].digest]

ByName(cs) == ByNameUpTo(cs, Len(cs))

\* container.container_name not in previous_by_name
IsNew(prev, c) == prev[c.container_name] = None

\* faulty variant: the digest compared without the else of the test for a new name
IsChangedNoElse(prev, c) == prev[c.container_name] # c.digest

\* previous.digest != container.digest
IsChanged(prev, c) == ~IsNew(prev, c) /\ prev[c.container_name] # c.digest

\* faulty variant: the handler returns the failure without its message
ScanFailureNoMessage(err) == [Result("scan", FALSE, err) EXCEPT !.error = ""]

\* except Exception as e: return {'success': False, 'error': str(e), ..}
ScanFailure(err) == Result("scan", FALSE, err)

\* scan_containers raises: the runtime cannot be reached
ScanUnavailable(p) ==
    /\ pc[p] = "idle"
    /\ now < MaxTime
    /\ now' = now + 1
    /\ op' = [op EXCEPT ![p] = "scan"]
    /\ result' = [result EXCEPT ![p] = ScanFailure("DockerException")]
    /\ UNCHANGED <<dockerVars, storeVars, active, pc, txVars, scanVars, histVars>>

\* faulty variant: a scan that finds nothing reported as a failure
ReturnEmptyAsFailure(p) ==
    /\ pc[p] = "idle"
    /\ now < MaxTime
    /\ now' = now + 1
    /\ op' = [op EXCEPT ![p] = "scan"]
    /\ result' = [result EXCEPT ![p] = ScanFailure("No containers found")]
    /\ lastScan' = Seen(<<>>)
    /\ UNCHANGED <<storeVars, active, pc, txVars, scanVars, atStart>>

\* if not current_containers: the early return of the zero counts
ReturnEmpty(p) ==
    /\ pc[p] = "idle"
    /\ now < MaxTime
    /\ now' = now + 1
    /\ op' = [op EXCEPT ![p] = "scan"]
    /\ result' = [result EXCEPT ![p] = Result("scan", TRUE, "")]
    /\ lastScan' = Seen(<<>>)
    /\ UNCHANGED <<storeVars, active, pc, txVars, scanVars, atStart>>

\* the scan finds no container
ScanEmpty(p) == ReturnEmpty(p) /\ UNCHANGED dockerVars

\* scan_timestamp = datetime.now(); current_containers = scan_containers(..)
BeginScan(p, cs) ==
    /\ pc[p] = "idle"
    /\ now < MaxTime
    /\ cs # <<>>
    /\ Len(containers) + Len(cs) <= MaxScanRows
    /\ now' = now + 1
    /\ op' = [op EXCEPT ![p] = "scan"]
    /\ pc' = [pc EXCEPT ![p] = "latest"]
    /\ scan_timestamp' = [scan_timestamp EXCEPT ![p] = now']
    /\ current_containers' = [current_containers EXCEPT ![p] = cs]
    /\ idx' = [idx EXCEPT ![p] = 0]
    /\ changed_container_names' = [changed_container_names EXCEPT ![p] = <<>>]
    /\ new_container_names' = [new_container_names EXCEPT ![p] = <<>>]
    /\ result' = [result EXCEPT ![p] = NoResult]
    /\ atStart' = [atStart EXCEPT ![p] =
                      [events |-> Len(digest_history), rows |-> Len(containers),
                       same |-> (lastScan = Seen(cs))]]
    /\ UNCHANGED <<storeVars, active, txVars, previous_by_name, lastScan>>

\* a scan that finds the containers cs
ScanBegin(p, cs) == cs \in ScanResults /\ BeginScan(p, cs) /\ UNCHANGED dockerVars

\* scan_and_update on the listing l of the runtime
ScanListed(p, l) ==
    /\ l \in TrackerListings
    /\ Len(containers) + Len(l) <= MaxTrackerRows
    /\ docker_containers' = [docker_containers EXCEPT ![p] = l]
    /\ UNCHANGED <<registry, host>>
    /\ IF scan_containers(l) = <<>> THEN ReturnEmpty(p) ELSE BeginScan(p, scan_containers(l))

\* previous_containers = get_latest_containers(), then the first
\* store_container_info of the loop
ScanGetLatest(p) ==
    /\ pc[p] = "latest"
    /\ previous_by_name' =
           [previous_by_name EXCEPT ![p] = ByName(get_latest_containers(containers))]
    /\ idx' = [idx EXCEPT ![p] = 1]
    /\ cur' = [cur EXCEPT ![p] = Row(current_containers[p][1].container_name,
                                     current_containers[p][1].digest, scan_timestamp[p])]
    /\ pc' = [pc EXCEPT ![p] = "select"]
    /\ UNCHANGED <<dockerVars, storeVars, envVars, op, previous_record, txEvents, txRows,
                   current_containers, scan_timestamp, changed_container_names,
                   new_container_names, result, histVars>>

\* the classification of the container just stored, then the next
\* store_container_info or the return of the result
ScanClassify(p) ==
    LET c == current_containers[p][idx[p]]
        new == IF IsNew(previous_by_name[p], c)
               THEN Append(new_container_names[p], c.container_name)
               ELSE new_container_names[p]
        changed == IF IsChanged(previous_by_name[p], c)
                   THEN Append(changed_container_names[p], c.container_name)
                   ELSE changed_container_names[p]
    IN
    /\ pc[p] = "classify"
    /\ new_container_names' = [new_container_names EXCEPT ![p] = new]
    /\ changed_container_names' = [changed_container_names EXCEPT ![p] = changed]
    /\ IF idx[p] < Len(current_containers[p])
       THEN /\ idx' = [idx EXCEPT ![p] = @ + 1]
            /\ cur' = [cur EXCEPT ![p] =
                          Row(current_containers[p][idx[p] + 1].container_name,
                              current_containers[p][idx[p] + 1].digest, scan_timestamp[p])]
            /\ pc' = [pc EXCEPT ![p] = "select"]
            /\ UNCHANGED <<result, lastScan>>
       ELSE /\ pc' = [pc EXCEPT ![p] = "idle"]
            /\ result' = [result EXCEPT ![p] =
                   [Result("scan", TRUE, "") EXCEPT
                       !.containers_scanned = Len(current_containers[p]),
                       !.changes_detected = Len(changed),
                       !.new_containers = Len(new),
                       !.lists = TRUE,
                       !.scanned_container_names =
                           [i \in 1..Len(current_containers[p]) |->
                               current_containers[p][i].container_name],
                       !.changed_container_names = changed,
                       !.new_container_names = new]]
            /\ lastScan' = Seen(current_containers[p])
            /\ UNCHANGED <<idx, cur>>
    /\ UNCHANGED <<dockerVars, storeVars, envVars, op, previous_record, txEvents, txRows,
                   current_containers, scan_timestamp, previous_by_name, atStart>>

\* ---- Tracker: initialize --------------------------------------------------
\* faulty variant: the failure is logged and True returned
InitializeFailureIgnored(why) == Result("initialize", TRUE, why)

\* return False: is_docker_available() is False, or the handler of initialize
\* caught an exception
InitializeFailure(why) == Result("initialize", FALSE, why)

\* the runtime cannot be reached: is_docker_available() returns False, or
\* scan_containers raises
InitializeUnavailable(p) ==
    /\ pc[p] = "idle"
    /\ op' = [op EXCEPT ![p] = "initialize"]
    /\ result' = [result EXCEPT ![p] = InitializeFailure("DockerException")]
    /\ UNCHANGED <<dockerVars, storeVars, envVars, pc, txVars, scanVars, histVars>>

\* if not containers: return True
InitializeEmpty(p, l) ==
    /\ pc[p] = "idle"
    /\ l \in TrackerListings
    /\ Len(containers) + Len(l) <= MaxTrackerRows
    /\ scan_containers(l) = <<>>
    /\ docker_containers' = [docker_containers EXCEPT ![p] = l]
    /\ op' = [op EXCEPT ![p] = "initialize"]
    /\ result' = [result EXCEPT ![p] = Result("initialize", TRUE, "")]
    /\ UNCHANGED <<registry, host, storeVars, envVars, pc, txVars, scanVars, histVars>>

\* containers = scan_containers(); scan_timestamp = datetime.now(), then the
\* first store_container_info of the loop
InitializeBegin(p, l) ==
    LET cs == scan_containers(l) IN
    /\ pc[p] = "idle"
    /\ now < MaxTime
    /\ l \in TrackerListings
    /\ cs # <<>>
    /\ Len(containers) + Len(l) <= MaxTrackerRows
    /\ docker_containers' = [docker_containers EXCEPT ![p] = l]
    /\ now' = now + 1
    /\ op' = [op EXCEPT ![p] = "initialize"]
    /\ pc' = [pc EXCEPT ![p] = "select"]
    /\ scan_timestamp' = [scan_timestamp EXCEPT ![p] = now']
    /\ current_containers' = [current_containers EXCEPT ![p] = cs]
    /\ idx' = [idx EXCEPT ![p] = 1]
    /\ cur' = [cur EXCEPT ![p] = Row(cs[1].container_name, cs[1].digest, now')]
    /\ result' = [result EXCEPT ![p] = NoResult]
    /\ lastScan' = NoScan
    /\ atStart' = [atStart EXCEPT ![p] =
                      [events |-> Len(digest_history), rows |-> Len(containers), same |-> FALSE]]
    /\ UNCHANGED <<registry, host, storeVars, active, previous_record, txEvents, txRows,
                   previous_by_name, changed_container_names, new_container_names>>

\* the next store_container_info of the loop, or return True
InitializeNext(p) ==
    /\ pc[p] = "stored"
    /\ IF idx[p] < Len(current_containers[p])
       THEN /\ idx' = [idx EXCEPT ![p] = @ + 1]
            /\ cur' = [cur EXCEPT ![p] =
                          Row(current_containers[p][idx[p] + 1].container_name,
                              current_containers[p][idx[p] + 1].digest, scan_timestamp[p])]
            /\ pc' = [pc EXCEPT ![p] = "select"]
            /\ UNCHANGED result
       ELSE /\ pc' = [pc EXCEPT ![p] = "idle"]
            /\ result' = [result EXCEPT ![p] = Result("initialize", TRUE, "")]
            /\ UNCHANGED <<idx, cur>>
    /\ UNCHANGED <<dockerVars, storeVars, envVars, op, previous_record, txEvents, txRows,
                   current_containers, scan_timestamp, previous_by_name,
                   changed_container_names, new_container_names, histVars>>

\* ---- Tracker: check_for_updates -------------------------------------------
\* A reading command is one run of the program (cli.py runs one command and
\* exits): it leaves its client at "returned" with its dict in result.  It
\* writes nothing, so the History Store met by later runs is the one of the
\* behaviours without it.
\* faulty variant: the digests compared without the test for a missing remote digest
check_container_updates_unchecked(c, remote) ==
    [container_name |-> c.container_name, current_digest |-> c.digest,
     remote_digest |-> remote, update_available |-> c.digest # remote, error |-> ""]

\* check_container_updates; remote is what get_remote_image_digest returned.
\* The error None is written "".  get_remote_image_digest raises nothing, so
\* the handler of check_container_updates is never entered.
check_container_updates(c, remote) ==
    IF remote = None
    THEN [container_name |-> c.container_name, current_digest |-> c.digest,
          remote_digest |-> None, update_available |-> FALSE,
          error |-> "Could not fetch remote digest"]
    ELSE [container_name |-> c.container_name, current_digest |-> c.digest,
          remote_digest |-> remote, update_available |-> c.digest # remote, error |-> ""]

\* faulty variant: an entry of errors for every item
UpdateErrorsOfAll(items) ==
    [i \in 1..Len(items) |-> [container_name |-> items[i].container_name,
                              error |-> items[i].error]]

\* errors.append(f"{container.container_name}: {update_info['error']}") for
\* the items with an error
UpdateErrors(items) ==
    LET failed == SelectSeq(items, LAMBDA u : u.error # "")
    IN  [i \in 1..Len(failed) |-> [container_name |-> failed[i].container_name,
                                   error |-> failed[i].error]]

\* faulty variant: updates_available counts every item whose remote digest is
\* not the current one, the failed lookups among them
UpdateResultCountingUnresolved(update_results) ==
    [Result("check_for_updates", TRUE, "") EXCEPT
        !.payload = [total_containers |-> Len(update_results),
                     updates_available |->
                         Cardinality({i \in 1..Len(update_results) :
                                         update_results[i].remote_digest #
                                             update_results[i].current_digest}),
                     containers |-> update_results,
                     errors |-> UpdateErrors(update_results)]]

\* the dict check_for_updates returns for the items update_results
UpdateResult(update_results) ==
    [Result("check_for_updates", TRUE, "") EXCEPT
        !.payload = [total_containers |-> Len(update_results),
                     updates_available |->
                         Cardinality({i \in 1..Len(update_results) :
                                         update_results[i].update_available}),
                     containers |-> update_results,
                     errors |-> UpdateErrors(update_results)]]

\* faulty variant: the remote digest of an item with an update stored as the
\* new snapshot of its container
StoredByUpdateCheckRemote(rows, update_results, t) ==
    LET updated == SelectSeq(update_results, LAMBDA u : u.update_available)
    IN  rows \o [i \in 1..Len(updated) |->
                    Row(updated[i].container_name, updated[i].remote_digest, t)]

\* the containers table after the loop of check_for_updates at time t: the
\* loop appends to update_results and calls no store_container_info
StoredByUpdateCheck(rows, update_results, t) == rows

\* check_for_updates when get_remote_image_digest returns remote[n] for the
\* image of name n
CheckForUpdates(p, remote) ==
    LET latest == get_latest_containers(containers)
        update_results ==
            [i \in 1..Len(latest) |->
                check_container_updates(latest[i], remote[latest[i].container_name])]
    IN
    /\ pc[p] = "idle"
    /\ remote \in [Names -> RemoteDigests]
    /\ registry' = [registry EXCEPT ![p] = remote]
    /\ op' = [op EXCEPT ![p] = "check_for_updates"]
    /\ result' = [result EXCEPT ![p] = UpdateResult(update_results)]
    /\ containers' = StoredByUpdateCheck(containers, update_results, now)
    /\ pc' = [pc EXCEPT ![p] = "returned"]
    /\ UNCHANGED <<docker_containers, host, digest_history, lock, envVars, txVars, scanVars,
                   histVars>>

\* a command that reads the History Store meets a storage error in its first
\* query; the handlers of compare_with_previous and check_for_updates return
\* success False with the message, the handler of get_container_status
\* returns []
ReadFailure(o) ==
    IF o = "status" THEN Result("status", TRUE, "OperationalError")
    ELSE Result(o, FALSE, "OperationalError")

ReadFails(p, o) ==
    /\ pc[p] = "idle"
    /\ o \in {"check_for_updates", "compare", "status", "history"}
    /\ op' = [op EXCEPT ![p] = o]
    /\ result' = [result EXCEPT ![p] = ReadFailure(o)]
    /\ pc' = [pc EXCEPT ![p] = "returned"]
    /\ UNCHANGED <<dockerVars, storeVars, envVars, txVars, scanVars, histVars>>

\* ---- Tracker: compare_with_previous --------------------------------------
\* values of the created_at column
CreatedTimes == 0..MaxTime

\* names of a sequence of rows
NamesOf(rows) == [i \in 1..Len(rows) |-> rows[i].container_name]

\* faulty variant: the creation time tested before the recent changes
ClassifyCreatedFirst(c, recent_changes, created, cutoff_time) ==
    IF created[c.container_name] > cutoff_time THEN "new"
    ELSE IF RowsOf(recent_changes, c.container_name) # <<>> THEN "changed"
    ELSE "unchanged"

\* the list a latest row is appended to: changed when recent_changes has an
\* event of its name, else new when created_at > cutoff_time, else unchanged
Classify(c, recent_changes, created, cutoff_time) ==
    IF RowsOf(recent_changes, c.container_name) # <<>> THEN "changed"
    ELSE IF created[c.container_name] > cutoff_time THEN "new"
    ELSE "unchanged"

\* compare_with_previous(hours_back) on a host in zone z, the latest row of
\* name n holding created_at = created[n]
Compare(p, h, z, created) ==
    LET current == get_latest_containers(containers)
        recent_changes == get_recent_changes(digest_history, h, now, z)
        cutoff_time == now - h
        listed(k) == SelectSeq(current,
                               LAMBDA c : Classify(c, recent_changes, created, cutoff_time) = k)
    IN
    /\ pc[p] = "idle"
    /\ h \in HoursBack
    /\ z \in TzOffsets
    /\ created \in [Names -> CreatedTimes]
    /\ host' = [host EXCEPT ![p] = [NoHost EXCEPT !.zone = z, !.created_at = created]]
    /\ op' = [op EXCEPT ![p] = "compare"]
    /\ result' = [result EXCEPT ![p] =
           [Result("compare", TRUE, "") EXCEPT
               !.payload = [comparison_period_hours |-> h,
                            total_containers |-> Len(current),
                            unchanged |-> NamesOf(listed("unchanged")),
                            changed |-> NamesOf(listed("changed")),
                            new_containers |-> NamesOf(listed("new")),
                            total_changes |-> Len(recent_changes)]]]
    /\ pc' = [pc EXCEPT ![p] = "returned"]
    /\ UNCHANGED <<docker_containers, registry, storeVars, envVars, txVars, scanVars, histVars>>

\* ---- Tracker: get_container_status ---------------------------------------
\* what is_container_running meets: the status of the container after
\* reload(), docker.errors.NotFound from containers.get, or any other
\* exception (the runtime cannot be reached, the API fails)
Probes == {"running", "exited", "NotFound", "Error"}

\* faulty variant: only the statuses of a container that is there are told apart
is_container_running_unguarded(probe) == probe # "exited"

\* is_container_running(name): container.status == 'running'; False from both
\* except clauses
is_container_running(probe) == probe = "running"

\* the status dict of a latest row
StatusOf(c, events, probes) ==
    LET recent_changes == get_digest_history(events, c.container_name) IN
    [container_name |-> c.container_name, digest |-> c.digest,
     is_running |-> is_container_running(probes[c.container_name]),
     change_count |-> Len(recent_changes),
     last_change |-> IF recent_changes = <<>> THEN None
                     ELSE recent_changes[1].change_timestamp]

\* get_container_status when the probe of the container of name n meets
\* probes[n]
Status(p, probes) ==
    LET latest == get_latest_containers(containers) IN
    /\ pc[p] = "idle"
    /\ probes \in [Names -> Probes]
    /\ host' = [host EXCEPT ![p] = [NoHost EXCEPT !.status = probes]]
    /\ op' = [op EXCEPT ![p] = "status"]
    /\ result' = [result EXCEPT ![p] =
           [Result("status", TRUE, "") EXCEPT
               !.payload = [i \in 1..Len(latest) |->
                               StatusOf(latest[i], digest_history, probes)]]]
    /\ pc' = [pc EXCEPT ![p] = "returned"]
    /\ UNCHANGED <<docker_containers, registry, storeVars, envVars, txVars, scanVars, histVars>>

\* ---- Tracker: get_container_history --------------------------------------
\* the dict of a name that has a latest row
HistoryFound(c, events, is_running) ==
    [Result("history", TRUE, "") EXCEPT
        !.payload = [container_name |-> c.container_name,
                     current_info |-> c,
                     is_running |-> is_running,
                     digest_changes |-> get_digest_history(events, c.container_name),
                     total_changes |-> Len(get_digest_history(events, c.container_name))]]

\* faulty variant: no test that a latest row of the name was found
get_container_history_unchecked(rows, events, n, is_running) ==
    LET latest == get_latest_containers(rows)
        found == SelectSeq(latest, LAMBDA c : c.container_name = n)
    IN  HistoryFound(IF found = <<>> THEN Row(n, None, 0) ELSE found[1], events, is_running)

\* get_container_history(container_name); "not found" stands for the message
\* f"Container '{container_name}' not found in tracking database", whose name
\* the payload keeps; no exception is caught on that path
get_container_history(rows, events, n, is_running) ==
    LET latest == get_latest_containers(rows)
        found == SelectSeq(latest, LAMBDA c : c.container_name = n)
    IN  IF found = <<>>
        THEN [Result("history", FALSE, "not found") EXCEPT
                 !.caught = "", !.payload = [container_name |-> n]]
        ELSE HistoryFound(found[1], events, is_running)

\* get_container_history(n) when the probe of the container meets probe
History(p, n, probe) ==
    /\ pc[p] = "idle"
    /\ n \in Names
    /\ probe \in Probes
    /\ host' = [host EXCEPT ![p] = [NoHost EXCEPT !.status[n] = probe]]
    /\ op' = [op EXCEPT ![p] = "history"]
    /\ result' = [result EXCEPT ![p] =
                      get_container_history(containers, digest_history, n,
                                            is_container_running(probe))]
    /\ pc' = [pc EXCEPT ![p] = "returned"]
    /\ UNCHANGED <<docker_containers, registry, storeVars, envVars, txVars, scanVars, histVars>>

\* ---- Tracker: generate_report ---------------------------------------------
\* get_recent_changes(hours=24*7)
ReportHours == 24 * 7

\* values of the project_name column; None stands for None and for ''
Projects == {None} \cup 1..2

\* faulty variant: the names of all status entries, the missing one included
ProjectsOfAll(statuses, project) ==
    {project[statuses[i].container_name] : i \in 1..Len(statuses)}

\* set(c['project_name'] for c in container_statuses if c['project_name'])
ProjectsOf(statuses, project) ==
    {project[statuses[i].container_name] : i \in 1..Len(statuses)} \ {None}

\* the dict generate_report returns for the status entries and the recent
\* changes it read
Report(container_statuses, recent_changes, project) ==
    LET total_containers == Len(container_statuses)
        running_containers == Cardinality({i \in 1..Len(container_statuses) :
                                              container_statuses[i].is_running})
        projects == ProjectsOf(container_statuses, project)
    IN  [Result("report", TRUE, "") EXCEPT
            !.payload = [summary |->
                             [total_containers |-> total_containers,
                              running_containers |-> running_containers,
                              stopped_containers |-> total_containers - running_containers,
                              containers_with_changes |->
                                  Cardinality({i \in 1..Len(container_statuses) :
                                                  container_statuses[i].change_count > 0}),
                              total_projects |-> Cardinality(projects),
                              recent_changes_7days |-> Len(recent_changes)],
                         containers |-> container_statuses,
                         recent_changes |-> recent_changes,
                         projects |-> projects]]

\* generate_report returns the report of the status entries it was handed.
\* The window of 24*7 hours reaches behind the first reading of the clock in
\* every zone, so the zone is not drawn.
ReturnReport(p, container_statuses, project, caught) ==
    LET recent_changes == get_recent_changes(digest_history, ReportHours, now, NoHost.zone) IN
    /\ pc[p] = "idle"
    /\ op' = [op EXCEPT ![p] = "report"]
    /\ result' = [result EXCEPT ![p] =
           [Report(container_statuses, recent_changes, project) EXCEPT !.caught = caught]]
    /\ pc' = [pc EXCEPT ![p] = "returned"]
    /\ UNCHANGED <<docker_containers, registry, storeVars, envVars, txVars, scanVars, histVars>>

\* generate_report when no query fails
GenerateReport(p, probes, project) ==
    LET latest == get_latest_containers(containers) IN
    /\ probes \in [Names -> Probes]
    /\ project \in [Names -> Projects]
    /\ host' = [host EXCEPT ![p] = [NoHost EXCEPT !.status = probes,
                                                   !.project_name = project]]
    /\ ReturnReport(p, [i \in 1..Len(latest) |-> StatusOf(latest[i], digest_history, probes)],
                    project, "")

\* generate_report when the query of get_container_status raises, which
\* get_container_status answers with [], and the query of the recent changes
\* after it does not
GenerateReportOfNothing(p) ==
    /\ host' = [host EXCEPT ![p] = NoHost]
    /\ ReturnReport(p, <<>>, NoHost.project_name, "OperationalError")

\* generate_report when get_recent_changes raises: except Exception returns
\* success False with the message
ReportFails(p) ==
    /\ pc[p] = "idle"
    /\ op' = [op EXCEPT ![p] = "report"]
    /\ result' = [result EXCEPT ![p] = Result("report", FALSE, "OperationalError")]
    /\ pc' = [pc EXCEPT ![p] = "returned"]
    /\ UNCHANGED <<dockerVars, storeVars, envVars, txVars, scanVars, histVars>>

\* ---- environment --------------------------------------------------------
Tick ==
    /\ now < MaxTime
    /\ now' = now + 1
    /\ UNCHANGED <<dockerVars, storeVars, active, pc, op, txVars, scanVars, result, histVars>>

StoreSteps(p) ==
    \/ Select(p)
    \/ RecordChange(p)
    \/ InsertRow(p)
    \/ Commit(p)
    \/ StoreError(p)

\* the reference system: one client, one command at a time, every timestamp a
\* fresh reading of the clock
Next ==
    \/ \E p \in active, n \in Names, d \in Digests : PutCallNow(p, n, d)
    \/ \E p \in active : StoreSteps(p)
    \/ \E p \in active : ScanUnavailable(p)
    \/ \E p \in active : ScanEmpty(p)
    \/ \E p \in active, cs \in ScanResults : ScanBegin(p, cs)
    \/ \E p \in active : ScanGetLatest(p)
    \/ \E p \in active : ScanClassify(p)
    \/ Tick

Spec == InitSeq /\ [][Next]_vars

\* the History Store alone: store_container_info called with any timestamp
NextStore ==
    \/ \E p \in active, n \in Names, d \in Digests, t \in 1..MaxTime : PutCall(p, n, d, t)
    \/ \E p \in active : StoreSteps(p)
    \/ \E p \in active : InsertConflict(p)
    \/ Tick

SpecStore == InitSeq /\ [][NextStore]_vars

\* two clients storing at the same time
NextConc ==
    \/ \E p \in active, n \in Names, d \in Digests : PutCallNow(p, n, d)
    \/ \E p \in active : StoreSteps(p)

SpecConc == InitConc /\ [][NextConc]_vars

\* store_container_info(container_info) of a name that no other client is
\* storing at the time
PutCallOfOtherName(p, n, d) ==
    /\ \A q \in active \ {p} : pc[q] = "idle" \/ cur[q].container_name # n
    /\ PutCallNow(p, n, d)

\* two clients storing different names at the same time
NextNames ==
    \/ \E p \in active, n \in Names, d \in Digests : PutCallOfOtherName(p, n, d)
    \/ \E p \in active : StoreSteps(p)

SpecNames == InitConc /\ [][NextNames]_vars

\* the Tracker's writing commands on the runtime: initialize and
\* scan_and_update, each on a listing of the runtime
NextTracker ==
    \/ \E p \in active, l \in TrackerListings : InitializeEmpty(p, l)
    \/ \E p \in active, l \in TrackerListings : InitializeBegin(p, l)
    \/ \E p \in active : InitializeNext(p)
    \/ \E p \in active, l \in TrackerListings : ScanListed(p, l)
    \/ \E p \in active : ScanGetLatest(p)
    \/ \E p \in active : ScanClassify(p)
    \/ \E p \in active : StoreSteps(p)

SpecTracker == InitSeq /\ [][NextTracker]_vars

\* the Tracker's writing commands while the runtime cannot be reached, on a
\* History Store filled by store_container_info
NextDown ==
    \/ \E p \in active, n \in Names, d \in Digests : PutCallNow(p, n, d)
    \/ \E p \in active : StoreSteps(p)
    \/ \E p \in active : InitializeUnavailable(p)
    \/ \E p \in active : ScanUnavailable(p)

SpecDown == InitSeq /\ [][NextDown]_vars

\* the Tracker's reading commands on a History Store filled by
\* store_container_info
NextQuery ==
    \/ \E p \in active, n \in Names, d \in Digests : PutCallNow(p, n, d)
    \/ \E p \in active : StoreSteps(p)
    \/ \E p \in active, remote \in [Names -> RemoteDigests] : CheckForUpdates(p, remote)
    \/ \E p \in active, h \in HoursBack, z \in TzOffsets, created \in [Names -> CreatedTimes] :
           Compare(p, h, z, created)
    \/ \E p \in active, probes \in [Names -> Probes] : Status(p, probes)
    \/ \E p \in active, n \in Names, probe \in Probes : History(p, n, probe)
    \/ \E p \in active, o \in {"check_for_updates", "compare", "status", "history"} :
           ReadFails(p, o)

SpecQuery == InitSeq /\ [][NextQuery]_vars

\* generate_report on a History Store filled by store_container_info
NextReport ==
    \/ \E p \in active, n \in Names, d \in Digests : PutCallNow(p, n, d)
    \/ \E p \in active : StoreSteps(p)
    \/ \E p \in active, probes \in [Names -> Probes], project \in [Names -> Projects] :
           GenerateReport(p, probes, project)
    \/ \E p \in active : GenerateReportOfNothing(p)
    \/ \E p \in active : ReportFails(p)

SpecReport == InitSeq /\ [][NextReport]_vars

\* the Scanner alone: its functions applied to what the runtime and the
\* registry can answer
InitScanner ==
    /\ Init
    /\ active = {1}
    /\ \/ /\ \E l \in Listings :
                  docker_containers = [p \in Procs |-> IF p \in active THEN l ELSE <<>>]
          /\ registry = [p \in Procs |-> <<>>]
          /\ host = [p \in Procs |-> NoHost]
       \/ /\ docker_containers = [p \in Procs |-> <<>>]
          /\ \E b \in RegistryBehaviours :
                  registry = [p \in Procs |-> IF p \in active THEN b ELSE <<>>]
          /\ \E raises \in BOOLEAN :
                  host = [p \in Procs |-> IF p \in active
                                          THEN [NoHost EXCEPT !.remove_raises = raises]
                                          ELSE NoHost]

NextScanner ==
    \/ \E p \in active : ScanContainers(p)
    \/ \E p \in active : ScanContainersRaise(p)
    \/ \E p \in active : ResolveRemote(p)

SpecScanner == InitScanner /\ [][NextScanner]_vars

\* the fields _extract_container_info takes from Config: its functions applied
\* to what the runtime can hold
InitFields ==
    /\ Init
    /\ active = {1}
    /\ docker_containers = [p \in Procs |-> <<>>]
    /\ registry = [p \in Procs |-> <<>>]
    /\ \/ \E str \in ImageStrings :
              host = [p \in Procs |-> IF p \in active THEN [NoHost EXCEPT !.Image = str]
                                      ELSE NoHost]
       \/ \E labels \in LabelDicts :
              host = [p \in Procs |-> IF p \in active THEN [NoHost EXCEPT !.Labels = labels]
                                      ELSE NoHost]

NextFields ==
    \/ \E p \in active : ParseImageName(p)
    \/ \E p \in active : ExtractLabels(p)

SpecFields == InitFields /\ [][NextFields]_vars

\* the same outcome of set S for every name
Alike(S) == {[n \in Names |-> v] : v \in S}

\* scans that fill the History Store, and get_container_status and
\* check_for_updates on what they stored: the containers are all running or
\* all gone, the registry answers for every image with the same digest or
\* for none
NextTracked ==
    \/ \E p \in active : ScanEmpty(p)
    \/ \E p \in active, cs \in ScanResults : ScanBegin(p, cs)
    \/ \E p \in active : ScanGetLatest(p)
    \/ \E p \in active : ScanClassify(p)
    \/ \E p \in active : StoreSteps(p)
    \/ \E p \in active, probes \in Alike({"running", "NotFound"}) : Status(p, probes)
    \/ \E p \in active, remote \in Alike({None, 1}) : CheckForUpdates(p, remote)

SpecTracked == InitSeq /\ [][NextTracked]_vars

\* ---- claims -------------------------------------------------------------
EventsOf(n) == SelectSeq(digest_history, LAMBDA e : e.container_name = n)

Idle == \A p \in active : pc[p] = "idle"

\* name n has been stored twice, first with a digest A and then, at a later
\* timestamp, with another digest B
StoredTwiceChanged(n) ==
    LET mine == RowsOf(containers, n) IN
    /\ Len(mine) = 2
    /\ mine[2].scan_timestamp > mine[1].scan_timestamp
    /\ mine[2].digest # mine[1].digest

\* C1: a name stored first with digest A and then again, at a later timestamp,
\* with another digest B has exactly one event, from A to B, and
\* get_latest_containers returns exactly one row for it, with digest B.
C1_ChangeDetection ==
    \A n \in Names :
        StoredTwiceChanged(n) =>
            LET mine == RowsOf(containers, n)
                latest == RowsOf(get_latest_containers(containers), n)
            IN  /\ Len(EventsOf(n)) = 1
                /\ EventsOf(n)[1].old_digest = mine[1].digest
                /\ EventsOf(n)[1].new_digest = mine[2].digest
                /\ Len(latest) = 1
                /\ latest[1].digest = mine[2].digest

C1_Witness == Idle /\ \E n \in Names : StoredTwiceChanged(n)

\* digest of the row of name n stored last, None if the name has no row
LastStored(rows, n) ==
    LET mine == RowsOf(rows, n) IN
    IF mine = <<>> THEN None ELSE mine[Len(mine)].digest

EventsDiffer ==
    \A i \in 1..Len(digest_history) :
        digest_history[i].old_digest # digest_history[i].new_digest

EventOnlyOnChange ==
    digest_history' # digest_history =>
        \E n \in Names, d \in Digests, t \in 1..MaxTime :
            LET old == LastStored(containers, n) IN
            /\ old # None
            /\ old # d
            /\ digest_history' = Append(digest_history, Event(n, old, d, t))
            /\ containers' = Append(containers, Row(n, d, t))

\* C2: an event is created only together with a snapshot of a name that
\* already has a stored snapshot and whose digest differs from the digest of
\* the snapshot stored before it for that name; the first snapshot of a name
\* creates no event; every stored event has old_digest # new_digest.
C2_EventOnlyOnChange == []EventsDiffer /\ [][EventOnlyOnChange]_vars

\* an event is stored for one name, and another name has its first snapshot
\* and no event
C2_Witness ==
    /\ Idle
    /\ \E n, m \in Names :
          /\ Len(EventsOf(n)) = 1
          /\ Len(RowsOf(containers, m)) = 1
          /\ EventsOf(m) = <<>>

\* the scan of client p returned its full result
ScanDone(p) ==
    /\ pc[p] = "idle"
    /\ result[p].op = "scan"
    /\ result[p].success
    /\ result[p].lists

\* rows stored with the timestamp of the scan of client p for container c
ScanRows(p, c) ==
    SelectSeq(containers, LAMBDA r : /\ r.container_name = c.container_name
                                     /\ r.scan_timestamp = scan_timestamp[p])

\* C3: a scan that finds the containers and digests the previous successful
\* scan found, with no other write in between, stores exactly one snapshot
\* per scanned container and creates no event.
C3_Idempotence ==
    \A p \in active :
        (ScanDone(p) /\ atStart[p].same) =>
            /\ Len(digest_history) = atStart[p].events
            /\ Len(containers) = atStart[p].rows + Len(current_containers[p])
            /\ \A i \in 1..Len(current_containers[p]) :
                   /\ Len(ScanRows(p, current_containers[p][i])) = 1
                   /\ ScanRows(p, current_containers[p][i])[1].digest =
                          current_containers[p][i].digest

\* a scan of two containers repeated on the unchanged system
C3_Witness ==
    \E p \in active :
        /\ ScanDone(p)
        /\ atStart[p].same
        /\ atStart[p].rows >= 2
        /\ Len(current_containers[p]) = 2

\* client p leaves store_container_info (or the command around it) by an
\* exception in this step
Fails(p) ==
    /\ pc[p] \in {"select", "record", "insert", "commit"}
    /\ pc'[p] = "idle"
    /\ ~result'[p].success

\* every stored event has the snapshot row it was written with
EventHasRow ==
    \A i \in 1..Len(digest_history) :
        \E j \in 1..Len(containers) :
            /\ containers[j].container_name = digest_history[i].container_name
            /\ containers[j].scan_timestamp = digest_history[i].change_timestamp
            /\ containers[j].digest = digest_history[i].new_digest

FailureWritesNothing ==
    (\E p \in active : Fails(p)) =>
        /\ containers' = containers
        /\ digest_history' = digest_history

\* C4: a store_container_info that fails, at any statement, persists neither
\* its event nor its row; no stored event is without its snapshot row.
C4_AllOrNothing == []EventHasRow /\ [][FailureWritesNothing]_vars

\* the INSERT of the row failed after the event of this call was inserted, and
\* the table kept earlier rows and no event of the failed call
C4_Witness ==
    \E p \in active :
        /\ pc[p] = "idle"
        /\ result[p].op = "store"
        /\ result[p].error = "IntegrityError"
        /\ DigestChanged(previous_record[p], cur[p].digest)
        /\ Len(containers) >= 2

IsPrefix(s, t) == Len(s) <= Len(t) /\ SubSeq(t, 1, Len(s)) = s

AppendOnly ==
    /\ IsPrefix(containers, containers')
    /\ IsPrefix(digest_history, digest_history')

\* C5: no step of a Tracker or History Store operation modifies or deletes a
\* stored snapshot row or event: each table only grows at its end.
C5_AppendOnly == [][AppendOnly]_vars

\* events and rows of a name are kept while later snapshots of it are stored
C5_Witness ==
    /\ Idle
    /\ \E n \in Names : Len(RowsOf(containers, n)) = 3 /\ Len(EventsOf(n)) = 2

\* the event at position i of digest_history and the rows of its name, in the
\* order they were stored: the row the event was written with is not the
\* first, and the row stored just before it has the event's old_digest
EventFollowsPrior(i) ==
    LET e == digest_history[i]
        mine == RowsOf(containers, e.container_name)
    IN  \E j \in 2..Len(mine) :
            /\ mine[j].scan_timestamp = e.change_timestamp
            /\ mine[j].digest = e.new_digest
            /\ mine[j - 1].digest = e.old_digest

\* C6: store_container_info calls of two clients for the same name are
\* serialized, so every event is recorded against the digest of the snapshot
\* stored just before its own: no event has a superseded old_digest.
C6_Serialized == \A i \in 1..Len(digest_history) : EventFollowsPrior(i)

\* C7: get_latest_containers returns, for every name that has a row, exactly
\* one row, the one with the greatest scan_timestamp of that name, and no row
\* for any other name; the result is ordered by container_name.
C7_LatestPerName ==
    LET latest == get_latest_containers(containers) IN
    /\ \A n \in Names :
           Cardinality({i \in 1..Len(latest) : latest[i].container_name = n}) =
               IF \E j \in 1..Len(containers) : containers[j].container_name = n
               THEN 1 ELSE 0
    /\ \A i \in 1..Len(latest) :
           /\ \E j \in 1..Len(containers) : containers[j] = latest[i]
           /\ \A j \in 1..Len(containers) :
                  containers[j].container_name = latest[i].container_name =>
                      containers[j].scan_timestamp <= latest[i].scan_timestamp
    /\ \A i, j \in 1..Len(latest) :
           i < j => latest[i].container_name < latest[j].container_name

\* both names are stored, and the row of a name with the greatest timestamp
\* is not the one stored last
C7_Witness ==
    /\ Idle
    /\ Len(get_latest_containers(containers)) = 2
    /\ \E n \in Names :
          LET mine == RowsOf(containers, n) IN
          /\ Len(mine) >= 2
          /\ mine[Len(mine)].scan_timestamp < mine[1].scan_timestamp

\* C8: get_digest_history(n) returns all and only the events of name n, in
\* strictly descending order of change_timestamp: no two events of a name have
\* the same change_timestamp.
C8_HistoryOrdered ==
    \A n \in Names :
        LET h == get_digest_history(digest_history, n)
            mine == {i \in 1..Len(digest_history) : digest_history[i].container_name = n}
        IN  /\ Len(h) = Cardinality(mine)
            /\ Range(h) = {digest_history[i] : i \in mine}
            /\ \A i, j \in 1..Len(h) :
                   i < j => h[i].change_timestamp > h[j].change_timestamp

\* a name has two events, and the one recorded first is the newer one
C8_Witness ==
    /\ Idle
    /\ \E n \in Names :
          /\ Len(EventsOf(n)) = 2
          /\ EventsOf(n)[1].change_timestamp > EventsOf(n)[2].change_timestamp

\* C9: get_recent_changes(h) returns exactly the events whose change_timestamp
\* lies in the closed interval [now - h, now], whatever the zone of the host.
C9_ClosedWindow ==
    \A h \in HoursBack, z \in TzOffsets :
        Range(get_recent_changes(digest_history, h, now, z)) =
            {e \in Range(digest_history) :
                now - h <= e.change_timestamp /\ e.change_timestamp <= now}

\* the rows stored before the scan of client p began
PreScanRows(p) == SubSeq(containers, 1, atStart[p].rows)

\* C10: in the result of scan_and_update, a scanned name is new iff it has no
\* row among those stored before the scan, changed iff it has one and the
\* digest of its latest differs from the scanned digest; the two lists are
\* disjoint, hold no name twice, and the counts are their lengths.
C10_Classification ==
    \A p \in active :
        ScanDone(p) =>
            LET cs == current_containers[p]
                res == result[p]
                known(n) == RowsOf(PreScanRows(p), n) # <<>>
                newNames == {cs[i].container_name : i \in {k \in 1..Len(cs) :
                                ~known(cs[k].container_name)}}
                changedNames == {cs[i].container_name : i \in {k \in 1..Len(cs) :
                                    /\ known(cs[k].container_name)
                                    /\ SelectPrevious(PreScanRows(p), cs[k].container_name)
                                           # cs[k].digest}}
            IN  /\ Range(res.new_container_names) = newNames
                /\ Range(res.changed_container_names) = changedNames
                /\ newNames \cap changedNames = {}
                /\ res.new_containers = Len(res.new_container_names)
                /\ res.new_containers = Cardinality(newNames)
                /\ res.changes_detected = Len(res.changed_container_names)
                /\ res.changes_detected = Cardinality(changedNames)
                /\ res.containers_scanned = Len(cs)

\* one scan found a new name and a name whose digest changed
C10_Witness ==
    \E p \in active :
        /\ ScanDone(p)
        /\ result[p].new_containers = 1
        /\ result[p].changes_detected = 1

\* extraction of a listed container fails: it raises or yields no digest
ExtractionFails(c) == ~c.attrs \/ ~c.image.found \/ get_image_digest(c) = None

\* C11: scan_containers returns one snapshot for every listed container whose
\* extraction does not fail, in the order of the listing, and none for the
\* others; it returns the list, it does not raise, whichever containers fail.
C11_PartialFailureIsolation ==
    \A p \in active :
        (result[p].op = "scan_containers" /\ result[p].caught = "") =>
            LET l == docker_containers[p]
                good == SelectSeq(l, LAMBDA c : ~ExtractionFails(c))
                got == result[p].payload
            IN  /\ result[p].returns = "list"
                /\ Len(got) = Len(good)
                /\ \A i \in 1..Len(got) :
                       /\ got[i].container_name = good[i].container_name
                       /\ got[i].digest # None

\* the first listed container cannot be extracted, the second can
C11_Witness ==
    \E p \in active :
        /\ result[p].op = "scan_containers"
        /\ Len(docker_containers[p]) = 2
        /\ ExtractionFails(docker_containers[p][1])
        /\ Len(result[p].payload) = 1

\* the listed containers of the command of client p whose extraction fails
Unresolved(p) ==
    {docker_containers[p][i].container_name :
        i \in {k \in 1..Len(docker_containers[p]) : ExtractionFails(docker_containers[p][k])}}

\* C12: every row stored by initialize or scan_and_update has a digest, and a
\* listed container whose digest cannot be resolved is neither in the scan
\* result of the command nor in any row the command writes.
C12_DigestPersisted ==
    /\ \A i \in 1..Len(containers) : containers[i].digest # None
    /\ \A p \in active :
           pc[p] # "idle" =>
               /\ \A i \in 1..Len(current_containers[p]) :
                      /\ current_containers[p][i].digest # None
                      /\ current_containers[p][i].container_name \notin Unresolved(p)
               /\ \A i \in 1..Len(txRows[p]) :
                      /\ txRows[p][i].digest # None
                      /\ txRows[p][i].container_name \notin Unresolved(p)
               /\ \A i \in 1..Len(containers) :
                      containers[i].scan_timestamp = scan_timestamp[p] =>
                          containers[i].container_name \notin Unresolved(p)

\* initialize has stored the one container of two listed that has a digest
C12_Witness ==
    \E p \in active :
        /\ op[p] = "initialize"
        /\ pc[p] = "stored"
        /\ Len(docker_containers[p]) = 2
        /\ Unresolved(p) # {}
        /\ \E i \in 1..Len(containers) : containers[i].scan_timestamp = scan_timestamp[p]

\* the rows stored since the command of client p began
RowsSince(p) == SubSeq(containers, atStart[p].rows + 1, Len(containers))

\* initialize of client p has stored its last container
InitializeStored(p) ==
    /\ op[p] = "initialize"
    /\ pc[p] = "stored"
    /\ idx[p] = Len(current_containers[p])

\* one row for every scanned container, in the order of the scan
PersistsAll(p) ==
    RowsSince(p) = [i \in 1..Len(current_containers[p]) |->
                       Row(current_containers[p][i].container_name,
                           current_containers[p][i].digest, scan_timestamp[p])]

\* C16 as stated: an initialize run stores a row for every scanned container
\* and creates no event, whatever the History Store held before.
C16_NoEventByInitialize ==
    \A p \in active :
        /\ (op[p] = "initialize" /\ pc[p] # "idle") =>
               Len(digest_history) + Len(txEvents[p]) = atStart[p].events
        /\ InitializeStored(p) => PersistsAll(p)

\* C16 amended: an initialize run that starts on a History Store without rows
\* creates no event, and when it ends it has stored one row for every scanned
\* container.
C16_FirstRunNoEvent ==
    \A p \in active :
        (op[p] = "initialize" /\ pc[p] # "idle" /\ atStart[p].rows = 0) =>
            /\ digest_history = <<>>
            /\ txEvents[p] = <<>>
            /\ InitializeStored(p) => PersistsAll(p)

\* the first run has stored two containers
C16_Witness ==
    \E p \in active :
        /\ InitializeStored(p)
        /\ atStart[p].rows = 0
        /\ Len(containers) = 2

\* the command that ended in this step found the runtime unreachable
FoundUnreachable(p) ==
    /\ pc[p] = "idle"
    /\ pc'[p] = "idle"
    /\ op'[p] \in {"initialize", "scan"}
    /\ result'[p].caught = "DockerException"

ReportsUnreachable ==
    \A p \in active :
        result[p].caught = "DockerException" =>
            /\ result[p].op = "initialize" => (result[p].returns = "bool" /\ ~result[p].success)
            /\ result[p].op = "scan" =>
                   /\ result[p].returns = "dict"
                   /\ ~result[p].success
                   /\ result[p].error # ""

UnreachableWritesNothing ==
    (\E p \in active : FoundUnreachable(p)) =>
        /\ containers' = containers
        /\ digest_history' = digest_history

\* C18: when the runtime cannot be reached, initialize returns False and
\* scan_and_update returns a dict with success False and an error message;
\* neither raises, and neither changes a table of the History Store.
C18_RuntimeUnavailable == []ReportsUnreachable /\ [][UnreachableWritesNothing]_vars

\* scan_and_update found the runtime unreachable with rows and an event stored
C18_Witness ==
    \E p \in active :
        /\ result[p].op = "scan"
        /\ result[p].caught = "DockerException"
        /\ Len(containers) >= 2
        /\ Len(digest_history) >= 1

\* C20: get_remote_image_digest runs the registry lookup, the image
\* inspection and the pull in this order, goes on to the next method after a
\* failure of any kind, returns the digest of the first method that finds
\* one, and returns None, raising nothing, only after all three have failed.
C20_FallThrough ==
    \A p \in active :
        result[p].op = "get_remote_image_digest" =>
            LET b == registry[p]
                r == result[p].payload
                found == {m \in 1..3 : b[m].kind = "digest"}
                first == CHOOSE m \in found : \A k \in found : m <= k
            IN  /\ result[p].returns = "Optional"
                /\ IF found = {}
                   THEN r.digest = None /\ r.tried = <<1, 2, 3>>
                   ELSE r.digest = b[first].digest /\ r.tried = [m \in 1..first |-> m]


\* ---- check_for_updates: claims --------------------------------------------
\* client p has returned from a check_for_updates that met no storage error
CheckedUpdates(p) ==
    /\ p \in active
    /\ pc[p] = "returned"
    /\ op[p] = "check_for_updates"
    /\ result[p].caught = ""

\* the items of the result of p whose remote digest was not resolved
FailedItems(p) ==
    {i \in 1..Len(result[p].payload.containers) :
        registry[p][result[p].payload.containers[i].container_name] = None}

\* C13: check_for_updates is not aborted by a failed registry lookup: it
\* returns success True with one item per latest snapshot, in their order; the
\* item of a container whose remote digest was not resolved carries a
\* non-empty error, every other item is conclusive (a remote digest, no
\* error), and errors has exactly one entry per failed item.
C13_UpdateCheckNeverAborts ==
    \A p \in Procs :
        CheckedUpdates(p) =>
            LET latest == get_latest_containers(containers)
                items == result[p].payload.containers
                errors == result[p].payload.errors
            IN
            /\ result[p].success
            /\ result[p].returns = "dict"
            /\ result[p].payload.total_containers = Len(latest)
            /\ Len(items) = Len(latest)
            /\ \A i \in 1..Len(items) :
                   /\ items[i].container_name = latest[i].container_name
                   /\ i \in FailedItems(p) => items[i].error # ""
                   /\ i \notin FailedItems(p) =>
                          items[i].error = "" /\ items[i].remote_digest # None
            /\ Len(errors) = Cardinality(FailedItems(p))
            /\ \A i \in FailedItems(p) :
                   \E j \in 1..Len(errors) :
                       /\ errors[j].container_name = items[i].container_name
                       /\ errors[j].error = items[i].error

\* two tracked containers, the lookup failed for one of them and not for the
\* other
C13_Witness ==
    \E p \in Procs :
        /\ CheckedUpdates(p)
        /\ Len(result[p].payload.containers) = 2
        /\ Cardinality(FailedItems(p)) = 1
        /\ Len(result[p].payload.errors) = 1
        /\ result[p].success

\* C14: in every item of a check_for_updates result update_available is true
\* iff the remote digest was resolved and differs from the stored digest; an
\* item whose remote digest was not resolved has update_available false and a
\* non-empty error.
C14_UpdateAvailableIff ==
    \A p \in Procs :
        CheckedUpdates(p) =>
            LET latest == get_latest_containers(containers)
                items == result[p].payload.containers
            IN
            \A i \in 1..Len(items) :
                LET remote == registry[p][items[i].container_name] IN
                /\ items[i].update_available \in BOOLEAN
                /\ items[i].update_available <=>
                       (remote # None /\ remote # latest[i].digest)
                /\ remote = None =>
                       ~items[i].update_available /\ items[i].error # ""

\* a result with an item whose remote digest differs from the stored one, an
\* item whose remote digest is the stored one or one whose remote digest was
\* not resolved
C14_Witness ==
    \E p \in Procs :
        /\ CheckedUpdates(p)
        /\ \E i, j \in 1..Len(result[p].payload.containers) :
               LET items == result[p].payload.containers IN
               /\ items[i].update_available
               /\ items[i].remote_digest # items[i].current_digest
               /\ ~items[j].update_available
               /\ items[j].remote_digest = None
               /\ items[j].error # ""

\* ---- compare_with_previous: claims ----------------------------------------
\* client p has returned from a compare_with_previous that met no storage error
Compared(p) ==
    /\ p \in active
    /\ pc[p] = "returned"
    /\ op[p] = "compare"
    /\ result[p].caught = ""

\* name n has an event in the closed window [now - h, now]
EventInWindow(n, h) ==
    \E e \in Range(digest_history) :
        /\ e.container_name = n
        /\ now - h <= e.change_timestamp
        /\ e.change_timestamp <= now

\* the names of the latest rows, in their order, that satisfy P
LatestNames(P(_)) ==
    NamesOf(SelectSeq(get_latest_containers(containers), LAMBDA c : P(c.container_name)))

\* every latest row is in exactly one of the three lists of the result of p
InOneList(p) ==
    LET res == result[p].payload
        all == res.changed \o res.new_containers \o res.unchanged
    IN  /\ Len(all) = Len(get_latest_containers(containers))
        /\ Range(all) = Range(NamesOf(get_latest_containers(containers)))
        /\ res.total_containers = Len(all)

\* C15: compare_with_previous(h) lists a latest row as changed when its name
\* has an event within [now - h, now], as new when it has none and its
\* created_at is after now - h, as unchanged otherwise; every latest row is in
\* exactly one list, and an in-window event wins over a recent created_at.
C15_ComparePartition ==
    \A p \in Procs :
        Compared(p) =>
            LET h == result[p].payload.comparison_period_hours
                recent(n) == host[p].created_at[n] > now - h
                isChanged(n) == EventInWindow(n, h)
                isNew(n) == ~EventInWindow(n, h) /\ recent(n)
                isUnchanged(n) == ~EventInWindow(n, h) /\ ~recent(n)
            IN  /\ result[p].success
                /\ InOneList(p)
                /\ result[p].payload.changed = LatestNames(isChanged)
                /\ result[p].payload.new_containers = LatestNames(isNew)
                /\ result[p].payload.unchanged = LatestNames(isUnchanged)

\* the three lists partition the latest rows by the events that
\* get_recent_changes returned on the host of p, which win over created_at
CompareByRecentChanges ==
    \A p \in Procs :
        Compared(p) =>
            LET h == result[p].payload.comparison_period_hours
                recent_changes == get_recent_changes(digest_history, h, now, host[p].zone)
                recent(n) == host[p].created_at[n] > now - h
                isChanged(n) == RowsOf(recent_changes, n) # <<>>
                isNew(n) == ~isChanged(n) /\ recent(n)
                isUnchanged(n) == ~isChanged(n) /\ ~recent(n)
            IN  /\ result[p].success
                /\ InOneList(p)
                /\ result[p].payload.changed = LatestNames(isChanged)
                /\ result[p].payload.new_containers = LatestNames(isNew)
                /\ result[p].payload.unchanged = LatestNames(isUnchanged)

\* a comparison in which a name with a returned event and a recent created_at
\* is listed as changed
CompareByRecentChanges_Witness ==
    \E p \in Procs, n \in Names :
        /\ Compared(p)
        /\ host[p].created_at[n] > now - result[p].payload.comparison_period_hours
        /\ n \in Range(result[p].payload.changed)

\* ---- failures of the reading commands: claims -----------------------------
\* the commands of the Tracker that read the History Store
ReadingCommands == {"check_for_updates", "compare", "status", "history"}

\* client p has returned from a reading command
Returned(p) ==
    /\ p \in active
    /\ pc[p] = "returned"
    /\ op[p] \in ReadingCommands

\* what the caller of a command sees of its result
HandedBack(r) == [returns |-> r.returns, success |-> r.success, error |-> r.error,
                  payload |-> r.payload]

\* C17: a command of the Tracker that met a storage error reports
\* success False with a message, and what its caller sees differs from what
\* the command hands back for an empty History Store.
C17_StorageFailureReported ==
    \A p \in Procs :
        (Returned(p) /\ result[p].caught # "") =>
            /\ ~result[p].success
            /\ result[p].error # ""
            /\ HandedBack(result[p]) #
                   HandedBack([Result(op[p], TRUE, "") EXCEPT !.payload = <<>>])

\* C19: every command of the Tracker returns a dict with the key success,
\* and with a message when success is False; a failure it met is turned into
\* success False with a message.
C19_UniformResult ==
    \A p \in Procs :
        Returned(p) =>
            /\ result[p].returns = "dict"
            /\ result[p].success \in BOOLEAN
            /\ ~result[p].success <=> result[p].error # ""
            /\ result[p].caught # "" => ~result[p].success

\* ---- get_remote_image_digest, the pulled image: claims ---------------------
\* client p has returned from get_remote_image_digest
Resolved(p) ==
    /\ p \in active
    /\ result[p].op = "get_remote_image_digest"

\* C21: when images.pull of the last method returned an image, the image has
\* been removed when get_remote_image_digest returns, whether or not a digest
\* was found, unless the removal itself failed; a failing removal raises
\* nothing and the digest returned is the one found.
C21_PulledImageRemoved ==
    \A p \in Procs :
        Resolved(p) =>
            /\ result[p].returns = "Optional"
            /\ result[p].payload.digest = get_remote_image_digest(registry[p])
            /\ (result[p].payload.pulled /\ ~host[p].remove_raises) =>
                   result[p].payload.removed

\* ---- scan_and_update, nothing found: claims --------------------------------
\* client p takes the step of a scan_and_update whose scan_containers finds
\* no container
ScansNothing(p) ==
    /\ pc[p] = "idle"
    /\ pc'[p] = "idle"
    /\ op'[p] = "scan"
    /\ now' = now + 1
    /\ docker_containers'[p] \in TrackerListings
    /\ scan_containers(docker_containers'[p]) = <<>>

\* C22: a scan_and_update whose scan finds no container returns success True
\* with containers_scanned, changes_detected and new_containers all 0 and no
\* error, and leaves both tables as they were.
C22_ZeroContainers ==
    [][\A p \in active :
          ScansNothing(p) =>
              /\ result'[p].success
              /\ result'[p].returns = "dict"
              /\ result'[p].error = ""
              /\ result'[p].containers_scanned = 0
              /\ result'[p].changes_detected = 0
              /\ result'[p].new_containers = 0
              /\ UNCHANGED <<containers, digest_history, txRows, txEvents>>]_vars

\* a scan of a runtime that lists containers none of which has a digest has
\* returned the zero counts, rows being stored
C22_Witness ==
    \E p \in active :
        /\ pc[p] = "idle"
        /\ op[p] = "scan"
        /\ docker_containers[p] # <<>>
        /\ scan_containers(docker_containers[p]) = <<>>
        /\ result[p].success
        /\ result[p].containers_scanned = 0
        /\ Len(containers) >= 1

\* ---- get_container_history: claims -----------------------------------------
\* client p has returned from a get_container_history that met no storage error
AskedHistory(p) ==
    /\ p \in active
    /\ pc[p] = "returned"
    /\ op[p] = "history"
    /\ result[p].caught = ""

\* C23: get_container_history of a name without a stored row returns
\* success False with the not-found error; of a name with a stored row it
\* returns success True with the row of that name that has the greatest
\* scan_timestamp, all the events of the name, newest first, and total_changes
\* their number.
C23_HistoryQuery ==
    \A p \in Procs :
        AskedHistory(p) =>
            LET n == result[p].payload.container_name
                res == result[p].payload
            IN  /\ result[p].returns = "dict"
                /\ IF RowsOf(containers, n) = <<>>
                   THEN /\ ~result[p].success
                        /\ result[p].error = "not found"
                   ELSE /\ result[p].success
                        /\ result[p].error = ""
                        /\ res.current_info \in Range(containers)
                        /\ res.current_info.container_name = n
                        /\ \A r \in Range(containers) :
                               r.container_name = n =>
                                   r.scan_timestamp <= res.current_info.scan_timestamp
                        /\ Range(res.digest_changes) =
                               {e \in Range(digest_history) : e.container_name = n}
                        /\ Len(res.digest_changes) =
                               Len(SelectSeq(digest_history, LAMBDA e : e.container_name = n))
                        /\ \A i, j \in 1..Len(res.digest_changes) :
                               i < j => res.digest_changes[i].change_timestamp >=
                                            res.digest_changes[j].change_timestamp
                        /\ res.total_changes = Len(res.digest_changes)

\* a query of a name with two events
C23_Witness ==
    \E p \in Procs :
        /\ AskedHistory(p)
        /\ result[p].success
        /\ result[p].payload.total_changes = 2
        /\ Len(digest_history) = 2

\* a query of a name without rows, while another name has rows
C23_NotFound_Witness ==
    \E p \in Procs :
        /\ AskedHistory(p)
        /\ ~result[p].success
        /\ containers # <<>>

\* ---- UNIQUE(container_name, scan_timestamp): claims -----------------------
\* no two stored rows share (container_name, scan_timestamp)
UniqueRows ==
    \A i, j \in 1..Len(containers) :
        (/\ containers[i].container_name = containers[j].container_name
         /\ containers[i].scan_timestamp = containers[j].scan_timestamp) => i = j

\* client p leaves the INSERT of a row whose (container_name, scan_timestamp)
\* is stored already
LeavesDuplicateInsert(p) ==
    /\ pc[p] = "insert"
    /\ pc'[p] # "insert"
    /\ \E r \in Range(containers) :
           /\ r.container_name = cur[p].container_name
           /\ r.scan_timestamp = cur[p].scan_timestamp

DuplicateFails ==
    \A p \in active :
        LeavesDuplicateInsert(p) =>
            /\ ~result'[p].success
            /\ result'[p].returns = "raise"
            /\ containers' = containers
            /\ digest_history' = digest_history
            /\ txRows'[p] = <<>>
            /\ txEvents'[p] = <<>>

\* C24: in every reachable state no two stored rows share (container_name,
\* scan_timestamp); a store_container_info whose row would be such a duplicate
\* fails and leaves both tables unchanged.
C24_UniqueSnapshot == []UniqueRows /\ [][DuplicateFails]_vars

\* a store of a name and timestamp that are stored already, with another
\* digest, has failed
C24_Witness ==
    \E p \in active :
        /\ pc[p] = "idle"
        /\ result[p].op = "store"
        /\ result[p].caught = "IntegrityError"
        /\ \E r \in Range(containers) :
               /\ r.container_name = cur[p].container_name
               /\ r.scan_timestamp = cur[p].scan_timestamp
               /\ r.digest # cur[p].digest

\* ---- get_container_status: claims ------------------------------------------
\* client p has returned from a get_container_status that met no storage error
AskedStatus(p) ==
    /\ p \in active
    /\ pc[p] = "returned"
    /\ op[p] = "status"
    /\ result[p].caught = ""

\* C25: get_container_status returns one entry per latest snapshot; is_running
\* is true only for a container the probe found running, and false when the
\* probe failed or the container is gone, which removes no entry;
\* change_count is the number of events stored for the name and last_change
\* the timestamp of the newest of them, None without events.
C25_ContainerStatus ==
    \A p \in Procs :
        AskedStatus(p) =>
            LET latest == get_latest_containers(containers)
                entries == result[p].payload
            IN  /\ Len(entries) = Len(latest)
                /\ \A i \in 1..Len(entries) :
                       LET n == entries[i].container_name
                           mine == {e \in Range(digest_history) : e.container_name = n}
                       IN  /\ n = latest[i].container_name
                           /\ entries[i].digest = latest[i].digest
                           /\ entries[i].is_running <=> host[p].status[n] = "running"
                           /\ host[p].status[n] \in {"NotFound", "Error"} =>
                                  ~entries[i].is_running
                           /\ entries[i].change_count =
                                  Len(SelectSeq(digest_history, LAMBDA e : e.container_name = n))
                           /\ IF mine = {}
                              THEN entries[i].last_change = None
                              ELSE entries[i].last_change =
                                       Max({e.change_timestamp : e \in mine})

\* two tracked containers, the probe of one failed and the other runs; one of
\* them has an event
C25_Witness ==
    \E p \in Procs :
        /\ AskedStatus(p)
        /\ Len(result[p].payload) = 2
        /\ \E i, j \in 1..2 :
               /\ host[p].status[result[p].payload[i].container_name] = "Error"
               /\ ~result[p].payload[i].is_running
               /\ result[p].payload[j].is_running
        /\ \E i \in 1..2 : result[p].payload[i].change_count = 1
        /\ \E i \in 1..2 : result[p].payload[i].last_change = None

\* ---- generate_report: claims -----------------------------------------------
\* client p has returned a report
Reported(p) ==
    /\ p \in active
    /\ pc[p] = "returned"
    /\ op[p] = "report"
    /\ result[p].success

\* the summary of the report of p agrees with the rest of the report
SummaryAgrees(p) ==
    LET res == result[p].payload
        names == {res.containers[i].container_name : i \in 1..Len(res.containers)}
    IN  /\ res.summary.total_containers = Len(res.containers)
        /\ res.summary.running_containers + res.summary.stopped_containers =
               res.summary.total_containers
        /\ res.summary.running_containers \in 0..res.summary.total_containers
        /\ res.summary.running_containers =
               Cardinality({i \in 1..Len(res.containers) : res.containers[i].is_running})
        /\ res.summary.recent_changes_7days = Len(res.recent_changes)
        /\ res.summary.total_projects =
               Cardinality({k \in Projects \ {None} :
                               \E n \in names : host[p].project_name[n] = k})

\* a step in which client p returns from generate_report
Reports(p) == pc[p] = "idle" /\ pc'[p] = "returned" /\ op'[p] = "report"

\* C26: generate_report writes nothing to the two tables, and the summary of
\* a report agrees with its payload: total_containers is the number of status
\* entries, running_containers + stopped_containers = total_containers,
\* recent_changes_7days is the number of recent changes returned,
\* total_projects the number of distinct non-empty project names.
C26_ReportReadOnly ==
    /\ [](\A p \in Procs : Reported(p) => SummaryAgrees(p))
    /\ [][\A p \in Procs : Reports(p) =>
              UNCHANGED <<containers, digest_history, txRows, txEvents, lock>>]_vars

\* a report of two containers of one project, one of them running, with an
\* event
C26_Witness ==
    \E p \in Procs :
        /\ Reported(p)
        /\ result[p].payload.summary.total_containers = 2
        /\ result[p].payload.summary.running_containers = 1
        /\ result[p].payload.summary.total_projects = 1
        /\ result[p].payload.summary.recent_changes_7days = 1
        /\ \E n \in Names : host[p].project_name[n] = None

\* ---- _get_image_digest: claims ---------------------------------------------
\* the snapshots of name n in the list that scan_containers returned to p
ScannedAs(p, n) == SelectSeq(result[p].payload, LAMBDA info : info.container_name = n)

\* the positions of the references of an image that hold '@sha256:'
Pinned(img) == {i \in 1..Len(img.RepoDigests) : img.RepoDigests[i] # None}

\* C27: the digest of a scanned container is the digest of the first
\* reference of its RepoDigests that holds '@sha256:'; without such a
\* reference the Id of the image when it begins with 'sha256:'; without that
\* 'short:' and the short id; a container with none of the three is not in
\* the scan result.
C27_DigestPriority ==
    \A p \in active :
        (result[p].op = "scan_containers" /\ result[p].caught = "") =>
            \A i \in 1..Len(docker_containers[p]) :
                LET c == docker_containers[p][i]
                    img == c.image
                    got == ScannedAs(p, c.container_name)
                IN  (c.attrs /\ img.found) =>
                        /\ Len(got) <= 1
                        /\ Pinned(img) # {} =>
                               /\ got # <<>>
                               /\ \E k \in Pinned(img) :
                                      /\ \A j \in Pinned(img) : k <= j
                                      /\ got[1].digest = img.RepoDigests[k]
                        /\ (Pinned(img) = {} /\ img.id # None) =>
                               got # <<>> /\ got[1].digest = img.id
                        /\ (Pinned(img) = {} /\ img.id = None /\ img.short_id # None) =>
                               /\ got # <<>>
                               /\ got[1].digest = ShortDigest(img.short_id)
                               /\ got[1].digest \notin Digests
                        /\ (Pinned(img) = {} /\ img.id = None /\ img.short_id = None) =>
                               got = <<>>

\* a scan of two containers: the image of one has a first reference without
\* '@sha256:', a second one with it, and an Id with another digest; the image
\* of the other has a short id only
C27_Witness ==
    \E p \in active :
        /\ result[p].op = "scan_containers"
        /\ Len(result[p].payload) = 2
        /\ \E i, j \in 1..Len(docker_containers[p]) :
               LET a == docker_containers[p][i].image
                   b == docker_containers[p][j].image
               IN  /\ Len(a.RepoDigests) = 2
                   /\ Pinned(a) = {2}
                   /\ a.id \notin {None, a.RepoDigests[2]}
                   /\ a.short_id # None
                   /\ ScannedAs(p, docker_containers[p][i].container_name)[1].digest =
                          a.RepoDigests[2]
                   /\ b.found /\ Pinned(b) = {} /\ b.id = None /\ b.short_id # None

\* ---- _parse_image_name: claims ---------------------------------------------
\* client p has parsed the image string in host[p].Image
Parsed(p) == p \in active /\ result[p].op = "parse_image_name"

\* C28: the empty image string parses to ('unknown', 'unknown'); a string
\* with '@sha256:' to the text before its '@' and 'digest'; another string
\* with a colon to the texts before and after its last colon; any other string
\* to itself and 'latest'.
C28_ImageParsing ==
    \A p \in Procs :
        Parsed(p) =>
            LET str == host[p].Image
                name == result[p].payload.image_name
                tag == result[p].payload.image_tag
            IN  IF str = <<>> THEN name = Unknown /\ tag = Unknown
                ELSE IF \E i \in 1..(Len(str) - 2) : SubSeq(str, i, i + 2) = DigestPin
                THEN /\ tag = DigestTag
                     /\ "@" \notin Range(name)
                     /\ Len(name) < Len(str)
                     /\ SubSeq(str, 1, Len(name) + 1) = name \o <<"@">>
                ELSE IF ":" \in Range(str)
                THEN /\ str = name \o <<":">> \o tag
                     /\ ":" \notin Range(tag)
                ELSE name = str /\ tag = Latest

\* a string with two colons and no '@sha256:' was split at the second colon
C28_Witness ==
    \E p \in Procs :
        /\ Parsed(p)
        /\ host[p].Image = <<"a", ":", "b", ":", "a">>
        /\ result[p].payload.image_name = <<"a", ":", "b">>
        /\ result[p].payload.image_tag = <<"a">>

\* the strings of test_image_name_parsing: 'nginx:latest', 'nginx',
\* 'nginx@sha256:abc123', ''
ParsingTestCases ==
    /\ parse_image_name(<<"a", ":", "b">>) = <<(<<"a">>), (<<"b">>)>>
    /\ parse_image_name(<<"a">>) = <<(<<"a">>), Latest>>
    /\ parse_image_name(<<"a", "@", "s", ":", "b">>) = <<(<<"a">>), DigestTag>>
    /\ parse_image_name(<<>>) = <<Unknown, Unknown>>

\* ---- labels: claims --------------------------------------------------------
\* client p has extracted the names from the labels in host[p].Labels
Labelled(p) == p \in active /\ result[p].op = "extract_labels"

\* name is the value of the first key of keys that labels has, None when it
\* has none of them
TakenFromFirst(name, labels, keys) ==
    /\ \A i \in 1..Len(keys) :
           (keys[i] \in DOMAIN labels /\ \A j \in 1..(i - 1) : keys[j] \notin DOMAIN labels) =>
               name = labels[keys[i]]
    /\ (\A i \in 1..Len(keys) : keys[i] \notin DOMAIN labels) => name = None

\* C30: service_name is the value of the first of the labels
\* com.docker.compose.service, com.docker.swarm.service.name, service that the
\* container has, project_name that of the first of com.docker.compose.project,
\* com.docker.swarm.stack.name, project; each is None when the container has
\* none of its three labels.
C30_LabelExtraction ==
    \A p \in Procs :
        Labelled(p) =>
            /\ TakenFromFirst(result[p].payload.service_name, host[p].Labels, ServiceLabels)
            /\ TakenFromFirst(result[p].payload.project_name, host[p].Labels, ProjectLabels)

\* a container with the swarm and the generic service label, of different
\* values, and no project label
C30_Witness ==
    \E p \in Procs :
        /\ Labelled(p)
        /\ DOMAIN host[p].Labels = {"com.docker.swarm.service.name", "service", "maintainer"}
        /\ host[p].Labels["service"] # host[p].Labels["com.docker.swarm.service.name"]
        /\ result[p].payload.service_name = host[p].Labels["com.docker.swarm.service.name"]
        /\ result[p].payload.project_name = None

\* ---- stores of different names: claims -------------------------------------
\* the events a lone client leaves when it stores the rows of name n one after
\* the other: one for every row whose digest differs from that of the row
\* before it
EventsOfRows(n) ==
    LET mine == RowsOf(containers, n)
        changes == SelectSeq([j \in 1..Len(mine) |-> j],
                             LAMBDA j : j > 1 /\ mine[j].digest # mine[j - 1].digest)
    IN  [k \in 1..Len(changes) |->
            Event(n, mine[changes[k] - 1].digest, mine[changes[k]].digest,
                  mine[changes[k]].scan_timestamp)]

\* the rows and events of name n are those of its own stores run alone
AsStoredAlone(n) ==
    /\ EventsOf(n) = EventsOfRows(n)
    /\ \A j \in 2..Len(RowsOf(containers, n)) :
           RowsOf(containers, n)[j - 1].scan_timestamp < RowsOf(containers, n)[j].scan_timestamp

\* the rows and the events of a name change only in the commit of a store of
\* that name
OnlyOwnName ==
    \A n \in Names :
        (\/ RowsOf(containers', n) # RowsOf(containers, n)
         \/ SelectSeq(digest_history', LAMBDA e : e.container_name = n) # EventsOf(n)) =>
            \E p \in active :
                /\ pc[p] = "commit"
                /\ pc'[p] = "idle"
                /\ cur[p].container_name = n

\* C29: when two clients store different names at the same time, in whatever
\* interleaving of their statements, the rows and events of each name are
\* those its own stores leave when run alone, and a store of one name adds,
\* changes or removes no row and no event of another name.
C29_NamesIndependent == [](\A n \in Names : AsStoredAlone(n)) /\ [][OnlyOwnName]_vars

\* the two clients are storing different names at the same time: one holds
\* the write lock with its event and its row inserted, the other has read its
\* previous record and waits for the lock
C29_Witness ==
    \E p, q \in active :
        /\ p # q
        /\ cur[p].container_name # cur[q].container_name
        /\ pc[p] = "commit"
        /\ lock = p
        /\ txEvents[p] # <<>>
        /\ pc[q] = "insert"

\* ---- the previous record by timestamp: claims -------------------------------
\* the stored rows of name n with the greatest scan_timestamp
NewestRows(rows, n) ==
    {r \in Range(rows) :
        /\ r.container_name = n
        /\ \A q \in Range(rows) : q.container_name = n => q.scan_timestamp <= r.scan_timestamp}

\* client p commits a store_container_info called on its own
StoreCommits(p) ==
    /\ op[p] = "store"
    /\ pc[p] = "commit"
    /\ pc'[p] = "idle"
    /\ result'[p].success

\* the commit of p adds the event of its row against the newest stored row of
\* the name, or no event when that row has the digest of the new one or when
\* there is none; a row older than the newest leaves the newest as it is
ComparedWithNewest(p) ==
    LET n == cur[p].container_name
        newest == NewestRows(containers, n)
        added == SubSeq(digest_history', Len(digest_history) + 1, Len(digest_history'))
    IN  /\ IsPrefix(digest_history, digest_history')
        /\ containers' = Append(containers, cur[p])
        /\ IF \E r \in newest : r.digest # cur[p].digest
           THEN \E r \in newest :
                    added = <<[container_name |-> n, old_digest |-> r.digest,
                               new_digest |-> cur[p].digest,
                               change_timestamp |-> cur[p].scan_timestamp]>>
           ELSE added = <<>>
        /\ (\E r \in newest : cur[p].scan_timestamp < r.scan_timestamp) =>
               /\ NewestRows(containers', n) = newest
               /\ get_latest_containers(containers') = get_latest_containers(containers)

\* C31: store_container_info takes as previous record the stored row of the
\* name with the greatest scan_timestamp, not the one inserted last: its event
\* has that row's digest as old_digest, the new digest as new_digest and the
\* timestamp of the call as change_timestamp; a call with a timestamp older
\* than the stored maximum is compared with that same row and leaves what
\* get_latest_containers returns unchanged.
C31_PriorByTimestamp ==
    [][\A p \in active : StoreCommits(p) => ComparedWithNewest(p)]_vars

\* a name was stored at a later and then at an earlier time with another
\* digest, and a third store with the digest of the second row recorded an
\* event against the first row
C31_Witness ==
    /\ Idle
    /\ Len(containers) = 3
    /\ \A i \in 1..3 : containers[i].container_name = containers[1].container_name
    /\ containers[2].scan_timestamp < containers[1].scan_timestamp
    /\ containers[1].scan_timestamp < containers[3].scan_timestamp
    /\ containers[2].digest # containers[1].digest
    /\ containers[3].digest = containers[2].digest
    /\ Len(digest_history) = 2
    /\ digest_history[2].old_digest = containers[1].digest
    /\ digest_history[2].change_timestamp = containers[3].scan_timestamp
    /\ digest_history[1].change_timestamp = containers[2].scan_timestamp

\* ---- the events of a name as a chain: claims --------------------------------
\* the rows of name n were stored with strictly increasing timestamps
StoredInOrder(n) ==
    LET mine == RowsOf(containers, n) IN
    \A j \in 2..Len(mine) : mine[j - 1].scan_timestamp < mine[j].scan_timestamp

\* the events of name n older than event e
EventsBefore(n, e) ==
    {f \in Range(EventsOf(n)) : f.change_timestamp < e.change_timestamp}

\* the newest event of a non-empty set of events
NewestEvent(es) ==
    CHOOSE e \in es : \A f \in es : f.change_timestamp <= e.change_timestamp

\* the events of name n, taken by change_timestamp, lead from the digest of
\* its first row to the digest of its latest row
Chain(n) ==
    LET mine == RowsOf(containers, n)
        events == Range(EventsOf(n))
    IN  /\ \A e \in events :
               IF EventsBefore(n, e) = {}
               THEN e.old_digest = mine[1].digest
               ELSE e.old_digest = NewestEvent(EventsBefore(n, e)).new_digest
        /\ \A e, f \in events : e.change_timestamp = f.change_timestamp => e = f
        /\ Cardinality(events) = Len(EventsOf(n))
        /\ events # {} =>
               \E r \in Range(get_latest_containers(containers)) :
                   /\ r.container_name = n
                   /\ r.digest = NewestEvent(events).new_digest

\* C32: after successful stores with strictly increasing timestamps for a
\* name, the events of the name ordered by change_timestamp form a chain: the
\* first has the digest of the first stored row as old_digest, every later one
\* has the new_digest of the event before it as old_digest, and the new_digest
\* of the newest is the digest get_latest_containers returns for the name.
C32_EventChain ==
    \A n \in Names : StoredInOrder(n) => Chain(n)

\* a name stored three times in order with a different digest each time: two
\* events, the second starting where the first ended
C32_Witness ==
    \E n \in Names :
        /\ Idle
        /\ StoredInOrder(n)
        /\ Len(RowsOf(containers, n)) = 3
        /\ Len(EventsOf(n)) = 2
        /\ EventsOf(n)[2].old_digest = EventsOf(n)[1].new_digest
        /\ EventsOf(n)[1].old_digest # EventsOf(n)[2].old_digest

\* ---- events and the rows behind them: claims --------------------------------
\* the stored rows an event of name n may have been written with
RowsBehind(e) ==
    {j \in 1..Len(containers) :
        /\ containers[j].container_name = e.container_name
        /\ containers[j].scan_timestamp = e.change_timestamp
        /\ containers[j].digest = e.new_digest}

\* C33: in every state each stored event has a stored row of its name whose
\* scan_timestamp is the event's change_timestamp and whose digest is the
\* event's new_digest; so a name that is in the store at all has at least one
\* row more than it has events.
C33_EventsBacked ==
    \A n \in Names :
        /\ \A i \in 1..Len(EventsOf(n)) : RowsBehind(EventsOf(n)[i]) # {}
        /\ (EventsOf(n) # <<>> \/ RowsOf(containers, n) # <<>>) =>
               Len(EventsOf(n)) + 1 <= Len(RowsOf(containers, n))

\* two clients stored the same name; it has one event and two rows, and a
\* third store of it is under way with its event inserted but not committed
C33_Witness ==
    \E n \in Names, p \in active :
        /\ Len(EventsOf(n)) = 1
        /\ Len(RowsOf(containers, n)) = 2
        /\ pc[p] = "insert"
        /\ cur[p].container_name = n
        /\ txEvents[p] # <<>>
        /\ \E q \in active \ {p} : result[q].op = "store" /\ result[q].success

\* ---- the Tracker's count and the store's events: claims ---------------------
\* the events inserted since the scan of client p began
EventsSince(p) == SubSeq(digest_history, atStart[p].events + 1, Len(digest_history))

\* C34: when scan_and_update succeeds with no other client writing, its
\* changes_detected is the number of events store_container_info inserted
\* during the scan and its changed_container_names are exactly the names of
\* those events, one event for each: the classification of the Tracker and
\* the change detection of the store agree.
C34_TrackerAgreesWithStore ==
    \A p \in active :
        ScanDone(p) =>
            /\ result[p].changes_detected = Len(EventsSince(p))
            /\ Range(result[p].changed_container_names) =
                   {EventsSince(p)[i].container_name : i \in 1..Len(EventsSince(p))}
            /\ \A i, j \in 1..Len(EventsSince(p)) :
                   EventsSince(p)[i].container_name = EventsSince(p)[j].container_name => i = j
            /\ \A i \in 1..Len(EventsSince(p)) :
                   EventsSince(p)[i].change_timestamp = scan_timestamp[p]

\* a scan of two known containers, one with another digest than stored and
\* one with the stored digest: one change counted, one event inserted
C34_Witness ==
    \E p \in active :
        /\ ScanDone(p)
        /\ Len(current_containers[p]) = 2
        /\ result[p].new_containers = 0
        /\ result[p].changes_detected = 1
        /\ Len(EventsSince(p)) = 1

\* ---- a scan that fails part-way: claims -------------------------------------
\* store_container_info of the container at idx raises inside the loop of
\* scan_and_update of client p
ScanStoreFails(p) ==
    /\ op[p] = "scan"
    /\ Fails(p)

\* the rows of the first k containers of the scan of client p
RowsOfFirst(p, k) ==
    [i \in 1..k |-> Row(current_containers[p][i].container_name,
                        current_containers[p][i].digest, scan_timestamp[p])]

\* the scan returns the failure; what it stored for the containers before the
\* failing one stays, the failing one and those after it are not stored
KeepsFirstOnly(p) ==
    /\ result'[p].op = "scan"
    /\ ~result'[p].success
    /\ ~result'[p].lists
    /\ containers' = containers
    /\ digest_history' = digest_history
    /\ SubSeq(containers', atStart[p].rows + 1, Len(containers')) = RowsOfFirst(p, idx[p] - 1)
    /\ Len(digest_history') = atStart[p].events + Len(changed_container_names[p])
    /\ \A i \in 1..Len(changed_container_names[p]) :
           digest_history'[atStart[p].events + i].container_name = changed_container_names[p][i]

\* C35: scan_and_update is not atomic across containers: when
\* store_container_info fails for the k-th scanned container the command
\* returns success False, the rows and events committed for the first k-1
\* containers of the scan stay stored, and no row of the k-th or a later
\* container is stored.
C35_ScanNotAtomic ==
    [][\A p \in active : ScanStoreFails(p) => KeepsFirstOnly(p)]_vars

\* a scan of two containers failed at the second; the row of the first and
\* the event of its digest change are stored
C35_Witness ==
    \E p \in active :
        /\ pc[p] = "idle"
        /\ result[p].op = "scan"
        /\ ~result[p].success
        /\ idx[p] = 2
        /\ Len(current_containers[p]) = 2
        /\ RowsSince(p) = RowsOfFirst(p, 1)
        /\ Len(EventsSince(p)) = 1
        /\ EventsSince(p)[1].change_timestamp = scan_timestamp[p]

\* ---- the tracked set: claims ------------------------------------------------
\* name n has a stored row
Tracked(n) == RowsOf(containers, n) # <<>>

\* the digest of the row of name n stored last
LastStoredDigest(n) == RowsOf(containers, n)[Len(RowsOf(containers, n))].digest

\* get_latest_containers returns one row of every tracked name, with the
\* digest stored last; get_container_status and check_for_updates have an
\* item of it
TrackedIsReturned ==
    \A n \in Names :
        Tracked(n) =>
            /\ Len(RowsOf(get_latest_containers(containers), n)) = 1
            /\ RowsOf(get_latest_containers(containers), n)[1].digest = LastStoredDigest(n)
            /\ \A p \in active :
                   /\ AskedStatus(p) =>
                          \E i \in 1..Len(result[p].payload) :
                              /\ result[p].payload[i].container_name = n
                              /\ result[p].payload[i].digest = LastStoredDigest(n)
                   /\ CheckedUpdates(p) =>
                          \E i \in 1..Len(result[p].payload.containers) :
                              /\ result[p].payload.containers[i].container_name = n
                              /\ result[p].payload.containers[i].current_digest =
                                     LastStoredDigest(n)

\* no step takes a name out of the tracked set or changes its latest row
\* without storing a row of it
StaysTracked ==
    \A n \in Names :
        Tracked(n) =>
            /\ RowsOf(get_latest_containers(containers'), n) # <<>>
            /\ RowsOf(containers', n) = RowsOf(containers, n) =>
                   RowsOf(get_latest_containers(containers'), n) =
                       RowsOf(get_latest_containers(containers), n)

\* C36: the tracked set only grows: a name that has a stored row is returned
\* by get_latest_containers in every later state, with the digest stored last
\* for it, also when later scans do not find the container; it is still
\* reported by get_container_status and still checked by check_for_updates.
C36_TrackedSetGrows == []TrackedIsReturned /\ [][StaysTracked]_vars

\* the last scan stored a container and did not find another that an earlier
\* scan had stored; get_container_status, whose probe does not find that
\* container either, reports it
C36_Witness ==
    \E p \in active, n \in Names :
        /\ AskedStatus(p)
        /\ Tracked(n)
        /\ \A i \in 1..Len(current_containers[p]) : current_containers[p][i].container_name # n
        /\ \E i \in 1..Len(containers) :
               /\ containers[i].scan_timestamp = scan_timestamp[p]
               /\ containers[i].scan_timestamp > RowsOf(containers, n)[1].scan_timestamp
        /\ host[p].status[n] = "NotFound"
        /\ \E i \in 1..Len(result[p].payload) : result[p].payload[i].container_name = n

\* check_for_updates has an item for a container the last scan did not find
C36_Checked_Witness ==
    \E p \in active, n \in Names :
        /\ CheckedUpdates(p)
        /\ Tracked(n)
        /\ \A i \in 1..Len(current_containers[p]) : current_containers[p][i].container_name # n
        /\ \E i \in 1..Len(containers) :
               /\ containers[i].scan_timestamp = scan_timestamp[p]
               /\ containers[i].scan_timestamp > RowsOf(containers, n)[1].scan_timestamp
        /\ \E i \in 1..Len(result[p].payload.containers) :
               result[p].payload.containers[i].container_name = n

\* ---- the reading commands and the History Store: claims ---------------------
\* client p runs compare_with_previous, get_container_status,
\* get_container_history or check_for_updates in this step, to its result or
\* to a storage error
Reads(p) ==
    /\ pc[p] = "idle"
    /\ pc'[p] = "returned"
    /\ op'[p] \in ReadingCommands

\* the step stores and removes nothing; after check_for_updates the latest row
\* of every item still has the digest the item calls current, whatever the
\* registry answered
StoreAsBefore(p) ==
    /\ containers' = containers
    /\ digest_history' = digest_history
    /\ txRows' = txRows
    /\ txEvents' = txEvents
    /\ (op'[p] = "check_for_updates" /\ result'[p].caught = "") =>
           \A i \in 1..Len(result'[p].payload.containers) :
               LET u == result'[p].payload.containers[i] IN
               /\ RowsOf(get_latest_containers(containers'), u.container_name) # <<>>
               /\ RowsOf(get_latest_containers(containers'), u.container_name)[1].digest =
                      u.current_digest

\* C37: compare_with_previous, get_container_status, get_container_history
\* and check_for_updates leave the History Store as it was, whether they
\* succeed or fail: none inserts a row or an event, and a remote digest that
\* check_for_updates learned does not replace the stored digest.
C37_ReadsLeaveStore ==
    [][\A p \in active : Reads(p) => StoreAsBefore(p)]_vars

\* check_for_updates found an update for a container with stored rows and an
\* event; the latest row keeps the digest that is not the remote one
C37_Witness ==
    \E p \in active :
        /\ CheckedUpdates(p)
        /\ result[p].payload.updates_available >= 1
        /\ digest_history # <<>>
        /\ \E i \in 1..Len(result[p].payload.containers) :
               LET u == result[p].payload.containers[i] IN
               /\ u.update_available
               /\ u.remote_digest # u.current_digest
               /\ RowsOf(get_latest_containers(containers), u.container_name)[1].digest =
                      u.current_digest

\* a reading command that met a storage error left the rows and events there
C37_Failed_Witness ==
    \E p \in active :
        /\ Returned(p)
        /\ result[p].caught # ""
        /\ Len(containers) >= 2
        /\ digest_history # <<>>

\* ---- the result of check_for_updates: claims --------------------------------
\* the items of the result of p that report an update, and those with an error
WithUpdate(p) ==
    {i \in 1..Len(result[p].payload.containers) :
        result[p].payload.containers[i].update_available}

WithError(p) ==
    {i \in 1..Len(result[p].payload.containers) :
        result[p].payload.containers[i].error # ""}

\* C38: the result of a successful check_for_updates is consistent:
\* total_containers is the number of its items and of the latest rows,
\* updates_available the number of items with update_available, errors has
\* one entry for every item with a non-empty error, no item has both an
\* update and an error, and so updates_available plus the number of errors
\* is at most total_containers.
C38_UpdateResultConsistent ==
    \A p \in active :
        (CheckedUpdates(p) /\ result[p].success) =>
            LET res == result[p].payload IN
            /\ res.total_containers = Len(res.containers)
            /\ res.total_containers = Len(get_latest_containers(containers))
            /\ res.updates_available = Cardinality(WithUpdate(p))
            /\ Len(res.errors) = Cardinality(WithError(p))
            /\ \A i \in WithError(p) :
                   Cardinality({j \in 1..Len(res.errors) :
                       res.errors[j].container_name = res.containers[i].container_name}) = 1
            /\ WithUpdate(p) \cap WithError(p) = {}
            /\ res.updates_available + Len(res.errors) <= res.total_containers

\* two tracked containers: an update for one, a failed lookup for the other
C38_Witness ==
    \E p \in active :
        /\ CheckedUpdates(p)
        /\ result[p].success
        /\ result[p].payload.total_containers = 2
        /\ result[p].payload.updates_available = 1
        /\ Len(result[p].payload.errors) = 1
        /\ Cardinality(WithUpdate(p) \cup WithError(p)) = 2
====
